---- MODULE Spec2Model ----
(***************************************************************************)
(* Health backend: the Google Fit fetch client (GoogleFitService), the     *)
(* token refresher (GoogleTokenRefreshService), the nine-metric            *)
(* orchestrator and the per-day health record store (HealthDataService).   *)
(*                                                                         *)
(* Three specifications share the variables:                               *)
(*   SpecExec   makeFitRequest / refreshAccessToken, one step per await,   *)
(*              several calls interleaved;                                 *)
(*   SpecFetch  one fetchAndSaveHealthData run, nine fetchers settling in  *)
(*              any order, each fetcher run to completion in one step;     *)
(*   Spec       fetchAndSaveHealthData, fetchRealDataFromGoogleFit and     *)
(*              saveHealthData runs interleaved on the record store.       *)
(***************************************************************************)
EXTENDS Integers, Sequences, FiniteSets, TLC

VARIABLES users, calls, clock, store, runs

vars == <<users, calls, clock, store, runs>>

(***************************************************************************)
(* Bounds of the model.                                                    *)
(***************************************************************************)
NumCalls == 2
MaxToken == 2

(***************************************************************************)
(* HTTP statuses the code tests for, and null.                             *)
(***************************************************************************)
HTTP_OK == 200
BAD_REQUEST == 400
UNAUTHORIZED == 401
FORBIDDEN == 403
NOT_FOUND == 404
INTERNAL_SERVER_ERROR == 500
NoResponse == 0
None == 0

UserIds == {"u1", "u2"}
CallIds == 1..NumCalls
AccessTokens == 1..MaxToken
RefreshTokens == 1..MaxToken

(***************************************************************************)
(* The users table (the credential store).  findById returns null for an   *)
(* unknown id: found = FALSE.                                              *)
(***************************************************************************)
NoUser == [found |-> FALSE, access_token |-> None, refresh_token |-> None]

UserRow(a, r) == [found |-> TRUE, access_token |-> a, refresh_token |-> r]

findById(tbl, id) == tbl[id]

\* variant: the row is rewritten with the access token only
updateTokensAccessOnly(tbl, id, accessToken, refreshToken) ==
    IF tbl[id].found
    THEN [tbl EXCEPT ![id] = UserRow(accessToken, None)]
    ELSE tbl

updateTokens(tbl, id, accessToken, refreshToken) ==
    IF tbl[id].found
    THEN [tbl EXCEPT ![id] = UserRow(accessToken, refreshToken)]
    ELSE tbl

(***************************************************************************)
(* Provider answers.  A Fit answer carries a status (NoResponse: the       *)
(* transport failed and error.response is undefined), a body and the       *)
(* provider's error message ("" when it gives none).                       *)
(***************************************************************************)
FitFailStatuses == {UNAUTHORIZED, FORBIDDEN, NOT_FOUND, INTERNAL_SERVER_ERROR, NoResponse}
ProviderMsgs == {"", "quota"}
ExecBodies == {7}
NoBody == 0

FitOk(d) == [status |-> HTTP_OK, data |-> d, msg |-> ""]

FitFail(s, m) == [status |-> s, data |-> NoBody, msg |-> IF s = NoResponse THEN "" ELSE m]

FitFailures == {FitFail(s, m) : s \in FitFailStatuses, m \in ProviderMsgs}

ExecResponses == {FitOk(d) : d \in ExecBodies} \cup FitFailures

NoFit == [status |-> -1, data |-> NoBody, msg |-> ""]

TokenFailStatuses == {BAD_REQUEST, INTERNAL_SERVER_ERROR, NoResponse}

TokenOk(a, r) == [status |-> HTTP_OK, access_token |-> a, refresh_token |-> r]

TokenFail(s) == [status |-> s, access_token |-> None, refresh_token |-> None]

TokenResponses ==
    {TokenOk(a, r) : a \in AccessTokens, r \in RefreshTokens \cup {None}}
        \cup {TokenFail(s) : s \in TokenFailStatuses}

(***************************************************************************)
(* What makeFitRequest hands its caller: the response data, or an error    *)
(* carrying a status and a message.  kind names the throw site.            *)
(***************************************************************************)
NoOut == [ok |-> FALSE, kind |-> "pending", status |-> -1, data |-> NoBody, msg |-> ""]

Thrown(k, s, m) == [ok |-> FALSE, kind |-> k, status |-> s, data |-> NoBody, msg |-> m]

OrElse(x, dflt, falsy) == IF x = falsy THEN dflt ELSE x

Success(resp) == [ok |-> TRUE, kind |-> "data", status |-> HTTP_OK, data |-> resp.data, msg |-> ""]

Unauthenticated == Thrown("Unauthenticated", UNAUTHORIZED, "User not authenticated with Google Fit")

ReauthRequired ==
    Thrown("ReauthRequired", UNAUTHORIZED,
           "Google Fit token expired and refresh failed. Please re-authenticate.")

RetryFailed(resp) ==
    Thrown("RetryFailed",
           OrElse(resp.status, INTERNAL_SERVER_ERROR, NoResponse),
           OrElse(resp.msg, "Google Fit API error after token refresh", ""))

\* (mutant) every failure of the first call reported as a plain server error
FirstCallFailedGeneric(resp) ==
    Thrown("ProviderError", INTERNAL_SERVER_ERROR, "Google Fit API error")

FirstCallFailed(resp) ==
    IF resp.status = FORBIDDEN
    THEN Thrown("MetricUnavailable", FORBIDDEN,
                OrElse(resp.msg, "Data type not available or permission denied", ""))
    ELSE Thrown("ProviderError",
                OrElse(resp.status, INTERNAL_SERVER_ERROR, NoResponse),
                OrElse(resp.msg, "Google Fit API error", ""))

(***************************************************************************)
(* getValidAccessToken: the stored access token, or a throw when the user  *)
(* is unknown or has none.  getAccessToken turns any throw into 401.       *)
(***************************************************************************)
\* (mutant) only the user's existence is tested
HasAccessTokenFoundOnly(usr) == usr.found

HasAccessToken(usr) == usr.found /\ usr.access_token # None

(***************************************************************************)
(* refreshAccessToken, in its three awaits: the user lookup, the token     *)
(* exchange, the store write.                                              *)
(***************************************************************************)
\* (mutant) the exchange is attempted for every user that exists
CanRefreshFoundOnly(usr) == usr.found

CanRefresh(usr) == usr.found /\ usr.refresh_token # None

\* what refreshAccessToken throws
RefreshError(k, s, m) == [kind |-> k, status |-> s, msg |-> m]

NoRefreshError == RefreshError("", 0, "")

UserNotFound == RefreshError("UserNotFound", NOT_FOUND, "User not found")

NoRefreshCredential ==
    RefreshError("NoRefreshCredential", UNAUTHORIZED,
                 "No refresh token available. Please re-authenticate.")

RefreshCredentialExpired ==
    RefreshError("RefreshCredentialExpired", UNAUTHORIZED,
                 "Refresh token expired. Please re-authenticate.")

RefreshFailed ==
    RefreshError("RefreshFailed", INTERNAL_SERVER_ERROR, "Failed to refresh access token")

\* thrown before the exchange, for a user that cannot refresh
LookupFailed(usr) == IF usr.found THEN NoRefreshCredential ELSE UserNotFound

\* (mutant) every failure of the exchange reported as an expired credential
ExchangeFailedAlwaysExpired(tok) == RefreshCredentialExpired

\* thrown by the catch around the exchange
ExchangeFailed(tok) ==
    IF tok.status = BAD_REQUEST THEN RefreshCredentialExpired ELSE RefreshFailed

ExchangeOk(tok) == tok.status = HTTP_OK

\* (mutant) the refresh token of the answer is stored even when there is none
NewPairAsAnswered(usr, tok) ==
    [access_token |-> tok.access_token, refresh_token |-> tok.refresh_token]

\* access_token, refresh_token || user.refresh_token
NewPair(usr, tok) ==
    [access_token |-> tok.access_token,
     refresh_token |-> OrElse(tok.refresh_token, usr.refresh_token, None)]

(***************************************************************************)
(* makeFitRequest, one action per await.  A call record keeps what the     *)
(* call holds in its locals and, as history, what it has sent and got.     *)
(***************************************************************************)
NoPair == [access_token |-> None, refresh_token |-> None]

IdleCall ==
    [pc |-> "idle", user |-> "u1", token |-> None, s1 |-> -1, m1 |-> "", rt |-> None,
     issued |-> None, pend |-> NoPair, newToken |-> None, retryToken |-> None, r2 |-> NoFit,
     nProvider |-> 0, nRefresh |-> 0, nToken |-> 0, nWrites |-> 0, rerr |-> NoRefreshError,
     out |-> NoOut]

Finish(c, rec, outcome) ==
    calls' = [calls EXCEPT ![c] = [rec EXCEPT !.pc = "done", !.out = outcome]]

\* (mutant) the retry is sent with the token read before the refresh
RetryTokenStale(accessToken, newToken) == accessToken

\* the token the retry is sent with: makeRequest(newToken)
RetryTokenOf(accessToken, newToken) == newToken

\* makeFitRequest is entered: getAccessToken awaits the user lookup
MakeFitRequestBegin(c, u) ==
    /\ calls[c].pc = "idle"
    /\ calls' = [calls EXCEPT ![c] = [@ EXCEPT !.pc = "getToken", !.user = u]]
    /\ UNCHANGED <<users, clock, store, runs>>

\* the lookup answers: throw 401, or send the first provider call
GetAccessToken(c) ==
    /\ calls[c].pc = "getToken"
    /\ LET usr == findById(users, calls[c].user)
       IN  IF HasAccessToken(usr)
           THEN calls' = [calls EXCEPT ![c] =
                    [@ EXCEPT !.pc = "call1", !.token = usr.access_token,
                              !.nProvider = @ + 1]]
           ELSE Finish(c, calls[c], Unauthenticated)
    /\ UNCHANGED <<users, clock, store, runs>>

\* (mutant) refreshes are coalesced: a call answered 401 that finds another
\* token stored than the one it sent retries with it and does not refresh
FirstResponseCoalesced(c, resp) ==
    /\ calls[c].pc = "call1"
    /\ LET rec == [calls[c] EXCEPT !.s1 = resp.status,
                                   !.m1 = IF resp.status = UNAUTHORIZED THEN "" ELSE resp.msg]
           cur == findById(users, calls[c].user).access_token
       IN  IF resp.status = HTTP_OK
           THEN Finish(c, rec, Success(resp))
           ELSE IF resp.status = UNAUTHORIZED /\ cur # calls[c].token
           THEN calls' = [calls EXCEPT ![c] =
                    [rec EXCEPT !.pc = "retry", !.newToken = cur, !.retryToken = cur,
                                !.nProvider = @ + 1]]
           ELSE IF resp.status = UNAUTHORIZED
           THEN calls' = [calls EXCEPT ![c] =
                    [rec EXCEPT !.pc = "refreshFind", !.nRefresh = @ + 1]]
           ELSE Finish(c, rec, FirstCallFailed(resp))
    /\ UNCHANGED <<users, clock, store, runs>>

\* the first provider call answers
FirstResponse(c, resp) ==
    /\ calls[c].pc = "call1"
    /\ LET rec == [calls[c] EXCEPT !.s1 = resp.status,
                                   !.m1 = IF resp.status = UNAUTHORIZED THEN "" ELSE resp.msg]
       IN  IF resp.status = HTTP_OK
           THEN Finish(c, rec, Success(resp))
           ELSE IF resp.status = UNAUTHORIZED
           THEN calls' = [calls EXCEPT ![c] =
                    [rec EXCEPT !.pc = "refreshFind", !.nRefresh = @ + 1]]
           ELSE Finish(c, rec, FirstCallFailed(resp))
    /\ UNCHANGED <<users, clock, store, runs>>

\* refreshAccessToken: the user lookup answers
RefreshFindUser(c) ==
    /\ calls[c].pc = "refreshFind"
    /\ LET usr == findById(users, calls[c].user)
       IN  IF CanRefresh(usr)
           THEN calls' = [calls EXCEPT ![c] =
                    [@ EXCEPT !.pc = "exchange", !.rt = usr.refresh_token,
                              !.nToken = @ + 1]]
           ELSE Finish(c, [calls[c] EXCEPT !.rerr = LookupFailed(usr)], ReauthRequired)
    /\ UNCHANGED <<users, clock, store, runs>>

\* (mutant) after a failed exchange the original call is sent again with the
\* old token
TokenEndpointResponseRetryAnyway(c, tok) ==
    /\ calls[c].pc = "exchange"
    /\ IF ExchangeOk(tok)
       THEN calls' = [calls EXCEPT ![c] =
                [@ EXCEPT !.pc = "updateTokens", !.rt = None,
                          !.issued = tok.refresh_token,
                          !.pend = NewPair([refresh_token |-> calls[c].rt], tok)]]
       ELSE calls' = [calls EXCEPT ![c] =
                [@ EXCEPT !.pc = "retry", !.rt = None, !.retryToken = calls[c].token,
                          !.nProvider = @ + 1]]
    /\ UNCHANGED <<users, clock, store, runs>>

\* refreshAccessToken: the token endpoint answers
\* (mutant) a failed exchange wipes the stored access token
TokenEndpointResponseWiping(c, tok) ==
    /\ calls[c].pc = "exchange"
    /\ IF ExchangeOk(tok)
       THEN /\ calls' = [calls EXCEPT ![c] =
                    [@ EXCEPT !.pc = "updateTokens", !.rt = None,
                              !.issued = tok.refresh_token,
                              !.pend = NewPair([refresh_token |-> calls[c].rt], tok)]]
            /\ users' = users
       ELSE /\ calls' = [calls EXCEPT ![c] =
                    [@ EXCEPT !.pc = "done", !.rt = None, !.rerr = ExchangeFailed(tok),
                              !.out = ReauthRequired]]
            /\ users' = updateTokens(users, calls[c].user, None, calls[c].rt)
    /\ UNCHANGED <<clock, store, runs>>

TokenEndpointResponse(c, tok) ==
    /\ calls[c].pc = "exchange"
    /\ IF ExchangeOk(tok)
       THEN calls' = [calls EXCEPT ![c] =
                [@ EXCEPT !.pc = "updateTokens", !.rt = None,
                          !.issued = tok.refresh_token,
                          !.pend = NewPair([refresh_token |-> calls[c].rt], tok)]]
       ELSE Finish(c, [calls[c] EXCEPT !.rt = None, !.rerr = ExchangeFailed(tok)],
                   ReauthRequired)
    /\ UNCHANGED <<users, clock, store, runs>>

\* (mutant) the new token is returned and the retry sent while the store
\* write has not been made
UpdateTokensDeferred(c) ==
    /\ calls[c].pc = "updateTokens"
    /\ users' = users
    /\ LET rec == [calls[c] EXCEPT !.newToken = calls[c].pend.access_token,
                                   !.issued = None, !.pend = NoPair]
       IN  calls' = [calls EXCEPT ![c] =
               [rec EXCEPT !.pc = "retry",
                           !.retryToken = RetryTokenOf(rec.token, rec.newToken),
                           !.nProvider = @ + 1]]
    /\ UNCHANGED <<clock, store, runs>>

\* refreshAccessToken: the store write completes, the new token is returned
\* to makeFitRequest, which sends the retry
UpdateTokens(c) ==
    /\ calls[c].pc = "updateTokens"
    /\ users' = updateTokens(users, calls[c].user,
                             calls[c].pend.access_token, calls[c].pend.refresh_token)
    /\ LET rec == [calls[c] EXCEPT !.newToken = calls[c].pend.access_token,
                                   !.issued = None, !.pend = NoPair,
                                   !.nWrites = @ + 1]
       IN  IF rec.newToken # None
           THEN calls' = [calls EXCEPT ![c] =
                    [rec EXCEPT !.pc = "retry",
                                !.retryToken = RetryTokenOf(rec.token, rec.newToken),
                                !.nProvider = @ + 1]]
           ELSE Finish(c, rec, ReauthRequired)
    /\ UNCHANGED <<clock, store, runs>>

\* (mutant) the retry's 401 is handled like the first call's: refresh again
RetryResponseRefreshAgain(c, resp) ==
    /\ calls[c].pc = "retry"
    /\ LET rec == [calls[c] EXCEPT !.r2 = resp]
       IN  IF resp.status = UNAUTHORIZED
           THEN calls' = [calls EXCEPT ![c] =
                    [rec EXCEPT !.pc = "refreshFind", !.nRefresh = @ + 1]]
           ELSE Finish(c, rec, IF resp.status = HTTP_OK THEN Success(resp) ELSE RetryFailed(resp))
    /\ UNCHANGED <<users, clock, store, runs>>

\* the retried provider call answers: its outcome is final
RetryResponse(c, resp) ==
    /\ calls[c].pc = "retry"
    /\ LET rec == [calls[c] EXCEPT !.r2 = resp]
       IN  Finish(c, rec, IF resp.status = HTTP_OK THEN Success(resp) ELSE RetryFailed(resp))
    /\ UNCHANGED <<users, clock, store, runs>>

ExecUsers ==
    [UserIds -> {NoUser} \cup {UserRow(a, r) : a \in {None, 1}, r \in {None, 1}}]

InitExec ==
    /\ users \in {t \in ExecUsers : t["u1"].found /\ ~t["u2"].found}
    /\ calls = [c \in CallIds |-> IdleCall]
    /\ clock = 0
    /\ store = <<>>
    /\ runs = <<>>

NextExec ==
    \/ \E c \in CallIds, u \in UserIds : MakeFitRequestBegin(c, u)
    \/ \E c \in CallIds : GetAccessToken(c)
    \/ \E c \in CallIds, resp \in ExecResponses : FirstResponse(c, resp)
    \/ \E c \in CallIds : RefreshFindUser(c)
    \/ \E c \in CallIds, tok \in TokenResponses : TokenEndpointResponse(c, tok)
    \/ \E c \in CallIds : UpdateTokens(c)
    \/ \E c \in CallIds, resp \in ExecResponses : RetryResponse(c, resp)

SpecExec == InitExec /\ [][NextExec]_vars

(***************************************************************************)
(* makeFitRequest run to completion without another call in between: the   *)
(* same steps as above, composed.  sc scripts the provider: r1 answers     *)
(* the first call, tok the token exchange, r2 the retry.  The result is    *)
(* the outcome and the user's row after the call.                          *)
(***************************************************************************)
refreshAccessToken(usr, tok) ==
    IF CanRefresh(usr) /\ ExchangeOk(tok)
    THEN LET p == NewPair(usr, tok)
         IN  [newToken |-> p.access_token,
              usr |-> UserRow(p.access_token, p.refresh_token)]
    ELSE [newToken |-> None, usr |-> usr]

makeFitRequest(usr, sc) ==
    IF ~HasAccessToken(usr) THEN [out |-> Unauthenticated, usr |-> usr]
    ELSE IF sc.r1.status = HTTP_OK THEN [out |-> Success(sc.r1), usr |-> usr]
    ELSE IF sc.r1.status = UNAUTHORIZED
    THEN LET rf == refreshAccessToken(usr, sc.tok)
         IN  IF rf.newToken # None
             THEN [out |-> IF sc.r2.status = HTTP_OK
                           THEN Success(sc.r2) ELSE RetryFailed(sc.r2),
                   usr |-> rf.usr]
             ELSE [out |-> ReauthRequired, usr |-> rf.usr]
    ELSE [out |-> FirstCallFailed(sc.r1), usr |-> usr]

(***************************************************************************)
(* Response bodies of the aggregate endpoint: a sequence of buckets, a     *)
(* bucket a sequence of datasets, a dataset a sequence of points.  Undef   *)
(* is a field the provider left out.  Time is in minutes, distance in      *)
(* metres, speed in units of 1/10 m/s; sleep_duration is kept in tenths of *)
(* an hour and speed in tenths of km/h, so that the arithmetic is exact.   *)
(***************************************************************************)
Null == -1
Undef == -2

Pt(fp, iv, s, e) == [fpVal |-> fp, intVal |-> iv, startN |-> s, endN |-> e]

NoPoint == Pt(Undef, Undef, 0, 0)

Truthy(v) == v # Undef /\ v # Null /\ v # 0

\* bucket.dataset?.[0]?.point?.[0]
FirstPoint(bucket) ==
    IF Len(bucket) > 0 /\ Len(bucket[1]) > 0 THEN bucket[1][1] ELSE NoPoint

\* (mutant) only the first bucket of the window is counted
SumFirstBucketOnly(body, fld) ==
    IF body = <<>> THEN 0
    ELSE LET v == FirstPoint(Head(body))[fld]
         IN  IF Truthy(v) THEN v ELSE 0

RECURSIVE SumFirst(_, _)
\* the forEach of the summing fetchers: add the first point's value of every
\* bucket that has a truthy one
SumFirst(body, fld) ==
    IF body = <<>> THEN 0
    ELSE LET v == FirstPoint(Head(body))[fld]
         IN  (IF Truthy(v) THEN v ELSE 0) + SumFirst(Tail(body), fld)

\* the first point's fpVal of the last bucket, else null
\* (mutant) the values of all buckets are added up
LatestFirstSummed(body) ==
    IF SumFirst(body, "fpVal") > 0 THEN SumFirst(body, "fpVal") ELSE Null

LatestFirst(body) ==
    IF Len(body) > 0 /\ Truthy(FirstPoint(body[Len(body)]).fpVal)
    THEN FirstPoint(body[Len(body)]).fpVal
    ELSE Null

RECURSIVE SumSeq(_)
SumSeq(q) == IF q = <<>> THEN 0 ELSE Head(q) + SumSeq(Tail(q))

\* the points of a bucket's first dataset
FirstDataset(bucket) == IF Len(bucket) > 0 THEN bucket[1] ELSE <<>>

\* (mutant) a segment counted by its value field when it has one
SegmentMinutesByValue(p) ==
    IF p.startN # 0 /\ p.endN # 0
    THEN IF p.fpVal # Undef THEN p.fpVal ELSE p.endN - p.startN
    ELSE 0

\* the length of a sleep segment that has both timestamps
SegmentMinutes(p) == IF p.startN # 0 /\ p.endN # 0 THEN p.endN - p.startN ELSE 0

RECURSIVE SleepMinutes(_)
SleepMinutes(body) ==
    IF body = <<>> THEN 0
    ELSE LET pts == FirstDataset(Head(body))
         IN  SumSeq([i \in 1..Len(pts) |-> SegmentMinutes(pts[i])])
                 + SleepMinutes(Tail(body))

(***************************************************************************)
(* The eight single-query fetchers, as functions of the outcome of their   *)
(* makeFitRequest call.  Every catch block returns; none rethrows.         *)
(***************************************************************************)
\* (mutant) fetchSteps resolving with null when its query fails
fetchStepsNull(out) == IF out.ok THEN SumFirst(out.data, "intVal") ELSE Null

fetchSteps(out) == IF out.ok THEN SumFirst(out.data, "intVal") ELSE 0

\* calories are held in tenths of a kilocalorie
CalScale == 10

\* Math.round(a / n) for a >= 0, n > 0
RoundDiv(a, n) == (2 * a + n) \div (2 * n)

\* (mutant) fetchCalories resolving with 0 when its query fails
fetchCaloriesZero(out) ==
    IF out.ok THEN RoundDiv(SumFirst(out.data, "fpVal"), CalScale) ELSE 0

\* Math.round(totalCalories)
fetchCalories(out) ==
    IF out.ok THEN RoundDiv(SumFirst(out.data, "fpVal"), CalScale) ELSE Null

fetchDistance(out) == IF out.ok THEN SumFirst(out.data, "fpVal") \div 1000 ELSE Null

fetchWeight(out) == IF out.ok THEN LatestFirst(out.data) ELSE Null

fetchHeight(out) == IF out.ok THEN LatestFirst(out.data) ELSE Null

fetchSleepDuration(out) ==
    IF out.ok /\ Len(out.data) > 0 /\ SleepMinutes(out.data) > 0
    THEN (SleepMinutes(out.data) * 10) \div 60
    ELSE Null

fetchActiveMinutes(out) ==
    IF out.ok /\ SumFirst(out.data, "intVal") > 0
    THEN SumFirst(out.data, "intVal")
    ELSE Null

\* (mutant) fetchSpeed resolving with 0 when its query fails
fetchSpeedZero(out) ==
    IF out.ok /\ LatestFirst(out.data) # Null
    THEN (LatestFirst(out.data) * 36) \div 10
    ELSE 0

fetchSpeed(out) ==
    IF out.ok /\ LatestFirst(out.data) # Null
    THEN (LatestFirst(out.data) * 36) \div 10
    ELSE Null

(***************************************************************************)
(* fetchHeartRate.  Stage 1 scans every point of every dataset of every    *)
(* bucket of the aggregate answer; stage 2 lists the raw streams and reads *)
(* them in listing order.  hs scripts the provider: agg for the aggregate  *)
(* call, list for the listing (its body is the sequence of stream ids),    *)
(* sets[i] for the dataset call of the i-th listed stream (its body is a   *)
(* sequence of points).  Heart-rate values are in tenths of a beat per     *)
(* minute, so that Math.round has something to round.                      *)
(***************************************************************************)
HrScale == 10

RECURSIVE Concat(_)
Concat(qq) == IF qq = <<>> THEN <<>> ELSE Head(qq) \o Concat(Tail(qq))

\* all points of the body, in the order the nested forEach visits them
AllPoints(body) == Concat([b \in 1..Len(body) |-> Concat(body[b])])

\* fpVal when present, else intVal when present, else null
HrOf(p) ==
    IF p.fpVal # Undef THEN p.fpVal
    ELSE IF p.intVal # Undef THEN p.intVal
    ELSE Null

\* Math.round(heartRate)
RoundHr(v) == RoundDiv(v, HrScale)

RECURSIVE LatestBy(_, _, _)
\* the value of the point with the greatest start time above latestTs
LatestBy(pts, latestTs, latest) ==
    IF pts = <<>> THEN latest
    ELSE LET p == Head(pts)
         IN  IF HrOf(p) # Null /\ p.startN > latestTs
             THEN LatestBy(Tail(pts), p.startN, RoundHr(HrOf(p)))
             ELSE LatestBy(Tail(pts), latestTs, latest)

HrValues(pts) == SelectSeq([i \in 1..Len(pts) |-> HrOf(pts[i])], LAMBDA v : v # Null)

\* (mutant) stage 1 returning the rounded mean whenever values were collected
AggregateHeartRateMean(body) ==
    LET pts == AllPoints(body)
    IN  IF Len(body) > 0 /\ Len(HrValues(pts)) > 0
        THEN RoundDiv(SumSeq(HrValues(pts)), HrScale * Len(HrValues(pts)))
        ELSE Null

\* stage 1: latest by start time, else the rounded mean, else nothing
AggregateHeartRate(body) ==
    LET pts == AllPoints(body)
    IN  IF Len(body) > 0 /\ LatestBy(pts, 0, Null) # Null THEN LatestBy(pts, 0, Null)
        ELSE IF Len(body) > 0 /\ Len(HrValues(pts)) > 0
        THEN RoundDiv(SumSeq(HrValues(pts)), HrScale * Len(HrValues(pts)))
        ELSE Null

RECURSIVE RawStreamsStopAtFailure(_, _, _, _)
\* (mutant) a stream whose dataset call fails ends the search
RawStreamsStopAtFailure(usr, sets, i, n) ==
    IF i > n THEN [value |-> Null, usr |-> usr, asked |-> n]
    ELSE LET r == makeFitRequest(usr, sets[i])
             v == IF r.out.ok THEN LatestBy(r.out.data, 0, Null) ELSE Null
         IN  IF v # Null \/ ~r.out.ok THEN [value |-> v, usr |-> r.usr, asked |-> i]
             ELSE RawStreamsStopAtFailure(r.usr, sets, i + 1, n)

RECURSIVE RawStreams(_, _, _, _)
\* stage 2, from the i-th of n listed streams on: the first stream that
\* yields a latest value wins; a failed or empty stream is skipped.  asked
\* is the number of dataset calls made.
RawStreams(usr, sets, i, n) ==
    IF i > n THEN [value |-> Null, usr |-> usr, asked |-> n]
    ELSE LET r == makeFitRequest(usr, sets[i])
             v == IF r.out.ok THEN LatestBy(r.out.data, 0, Null) ELSE Null
         IN  IF v # Null THEN [value |-> v, usr |-> r.usr, asked |-> i]
             ELSE RawStreams(r.usr, sets, i + 1, n)

ErrOf(out) ==
    IF out.ok THEN "ok" ELSE IF out.status = FORBIDDEN THEN "unavailable" ELSE "failed"

\* (mutant) every stream asked is asked a second time
CallLogRevisiting(k) == <<"aggregate", "dataSources">> \o [i \in 1..(2 * k) |-> "dataset"]

\* the provider calls of a resolution that listed the streams and asked k
\* of them, in the order they were issued
CallLog(k) == <<"aggregate", "dataSources">> \o [i \in 1..k |-> "dataset"]

\* (mutant) the raw streams are searched whatever stage 1 produced
fetchHeartRateEager(usr, hs) ==
    LET a == makeFitRequest(usr, hs.agg)
    IN  IF ~a.out.ok
        THEN [value |-> Null, usr |-> a.usr, err |-> ErrOf(a.out), asked |-> 0,
              log |-> <<"aggregate">>]
        ELSE LET l == makeFitRequest(a.usr, hs.list)
                 v == AggregateHeartRate(a.out.data)
             IN  IF l.out.ok /\ Len(l.out.data) > 0
                 THEN LET w == RawStreams(l.usr, hs.sets, 1, Len(l.out.data))
                      IN  [value |-> IF v # Null THEN v ELSE w.value, usr |-> w.usr,
                           err |-> "ok", asked |-> w.asked, log |-> CallLog(w.asked)]
                 ELSE [value |-> v, usr |-> l.usr, err |-> "ok", asked |-> 0,
                       log |-> CallLog(0)]

\* variant: only a permission-denied aggregate answer ends the resolver;
\* after any other aggregate failure the raw sources are listed
fetchHeartRateFallbackOnError(usr, hs) ==
    LET a == makeFitRequest(usr, hs.agg)
    IN  IF ~a.out.ok /\ a.out.status = FORBIDDEN
        THEN [value |-> Null, usr |-> a.usr, err |-> ErrOf(a.out), asked |-> 0,
              log |-> <<"aggregate">>]
        ELSE IF a.out.ok /\ AggregateHeartRate(a.out.data) # Null
        THEN [value |-> AggregateHeartRate(a.out.data), usr |-> a.usr, err |-> "ok",
              asked |-> 0, log |-> <<"aggregate">>]
        ELSE LET l == makeFitRequest(a.usr, hs.list)
             IN  IF l.out.ok /\ Len(l.out.data) > 0
                 THEN LET w == RawStreams(l.usr, hs.sets, 1, Len(l.out.data))
                      IN  [value |-> w.value, usr |-> w.usr, err |-> "ok",
                           asked |-> w.asked, log |-> CallLog(w.asked)]
                 ELSE [value |-> Null, usr |-> l.usr, err |-> "ok", asked |-> 0,
                       log |-> CallLog(0)]

fetchHeartRate(usr, hs) ==
    LET a == makeFitRequest(usr, hs.agg)
    IN  IF ~a.out.ok
        THEN [value |-> Null, usr |-> a.usr, err |-> ErrOf(a.out), asked |-> 0,
              log |-> <<"aggregate">>]
        ELSE IF AggregateHeartRate(a.out.data) # Null
        THEN [value |-> AggregateHeartRate(a.out.data), usr |-> a.usr, err |-> "ok",
              asked |-> 0, log |-> <<"aggregate">>]
        ELSE LET l == makeFitRequest(a.usr, hs.list)
             IN  IF l.out.ok /\ Len(l.out.data) > 0
                 THEN LET w == RawStreams(l.usr, hs.sets, 1, Len(l.out.data))
                      IN  [value |-> w.value, usr |-> w.usr, err |-> "ok",
                           asked |-> w.asked, log |-> CallLog(w.asked)]
                 ELSE [value |-> Null, usr |-> l.usr, err |-> "ok", asked |-> 0,
                       log |-> CallLog(0)]

(***************************************************************************)
(* The nine fetchers of a run, in the order of the allSettled array        *)
(* (also the field names of the saved data).                               *)
(***************************************************************************)
Metrics ==
    <<"steps", "heart_rate", "calories", "distance", "weight", "height",
      "sleep_duration", "active_minutes", "speed">>

MetricSet == {Metrics[i] : i \in 1..Len(Metrics)}

ParseOf(m, out) ==
    CASE m = "steps" -> fetchSteps(out)
      [] m = "calories" -> fetchCalories(out)
      [] m = "distance" -> fetchDistance(out)
      [] m = "weight" -> fetchWeight(out)
      [] m = "height" -> fetchHeight(out)
      [] m = "sleep_duration" -> fetchSleepDuration(out)
      [] m = "active_minutes" -> fetchActiveMinutes(out)
      [] m = "speed" -> fetchSpeed(out)

\* one fetcher run to completion: the value it resolves with, the user's
\* row after it, and whether its (first) provider query succeeded
Fetch(m, usr, sc) ==
    IF m = "heart_rate" THEN fetchHeartRate(usr, sc)
    ELSE LET r == makeFitRequest(usr, sc)
         IN  [value |-> ParseOf(m, r.out), usr |-> r.usr, err |-> ErrOf(r.out), asked |-> 0,
              log |-> <<"aggregate">>]

(***************************************************************************)
(* The user_health_data table: a sequence of rows, the row id being the    *)
(* index.  Nothing in the entity makes (user_id, date) unique.             *)
(***************************************************************************)
Row(u, d, vals) == [user_id |-> u, date |-> d] @@ vals

NoRow == Row("", Null, [m \in MetricSet |-> Null])

Get(data, f) == IF f \in DOMAIN data THEN data[f] ELSE Undef

\* x || dflt
JsOr(x, dflt) == IF Truthy(x) THEN x ELSE dflt

\* saveHealthData, no row found: the new entity
CreateEntity(u, d, data) ==
    Row(u, d, [m \in MetricSet |->
                  IF m = "steps" THEN JsOr(Get(data, m), 0) ELSE JsOr(Get(data, m), Null)])

\* saveHealthData, row found: Object.assign(healthData, data)
AssignEntity(row, data) ==
    [f \in DOMAIN row |-> IF f \in DOMAIN data THEN data[f] ELSE row[f]]

\* findOne({ where: { user_id, date } }): the ids of the rows that match
Matching(tbl, u, d) == {i \in 1..Len(tbl) : tbl[i].user_id = u /\ tbl[i].date = d}

\* repository.save: insert the new entity, or update the row it was loaded from
SaveRow(tbl, id, ent) == IF id = 0 THEN Append(tbl, ent) ELSE [tbl EXCEPT ![id] = ent]

(***************************************************************************)
(* Runs of fetchAndSaveHealthData, saveHealthData (called by the           *)
(* controller) and fetchRealDataFromGoogleFit.  res is the allSettled      *)
(* array, err what became of each fetcher's provider query.                *)
(***************************************************************************)
NumRuns == 2
MaxDay == 1
MaxBackfillDays == 2

RunIds == 1..NumRuns

Pending == [status |-> "pending", value |-> Null]

Fulfilled(v) == [status |-> "fulfilled", value |-> v]

NoData == [m \in {} |-> Null]

\* no fetcher has been given provider answers
NoScript == [metric |-> "", sc |-> <<>>]

IdleRun ==
    [kind |-> "none", pc |-> "idle", user |-> "u1", day |-> 0,
     res |-> [m \in MetricSet |-> Pending], err |-> [m \in MetricSet |-> ""],
     data |-> NoData, saveDay |-> 0, found |-> 0, ent |-> NoRow, ret |-> NoRow,
     row |-> 0, i |-> 0, days |-> 0, count |-> 0,
     script |-> NoScript, asked |-> 0, log |-> <<>>, why |-> "", cycles |-> 0, skips |-> 0,
     rested |-> TRUE, visited |-> <<>>]

\* the orchestrator's fallback for a rejected fetcher
DefaultOf(m) == IF m = "steps" THEN 0 ELSE Null

\* results[i].status === 'fulfilled' ? results[i].value : default
SlotOf(m, result) == IF result.status = "fulfilled" THEN result.value ELSE DefaultOf(m)

\* (mutant) one absent metric suppresses the others
MergedSuppressing(res) ==
    [m \in MetricSet |->
        IF \E k \in MetricSet : res[k].value = Null THEN DefaultOf(m) ELSE SlotOf(m, res[m])]

\* the object handed to saveHealthData
Merged(res) == [m \in MetricSet |-> SlotOf(m, res[m])]

AllSettled(res) == \A m \in MetricSet : res[m].status # "pending"

\* fetchAndSaveHealthData is entered for the signed-in user: the window is
\* computed, the nine fetchers are started
FetchAllBegin(r, u) ==
    /\ runs[r].pc = "idle"
    /\ users[u].found
    /\ runs' = [runs EXCEPT ![r] =
            [@ EXCEPT !.kind = "fetchAll", !.pc = "fetching", !.user = u, !.day = clock]]
    /\ UNCHANGED <<users, calls, clock, store>>

\* one fetcher settles; f is what the fetcher, run to completion against
\* the provider, resolved with and left in the user's row
FetcherSettle(r, m, f) ==
    /\ runs[r].pc = "fetching"
    /\ runs[r].res[m].status = "pending"
    /\ runs' = [runs EXCEPT ![r] =
            [@ EXCEPT !.res[m] = Fulfilled(f.value), !.err[m] = f.err]]
    /\ users' = [users EXCEPT ![runs[r].user] = f.usr]
    /\ UNCHANGED <<calls, clock, store>>

\* (mutant) the barrier opens when the first fetcher settles
BarrierOpenAtFirst(res) == \E m \in MetricSet : res[m].status # "pending"

\* the barrier: allSettled resolves
BarrierOpen(res) == AllSettled(res)

\* allSettled has resolved: the record is assembled and saveHealthData is
\* entered, which computes today and awaits findOne
Assemble(r) ==
    /\ runs[r].pc = "fetching"
    /\ BarrierOpen(runs[r].res)
    /\ runs' = [runs EXCEPT ![r] =
            [@ EXCEPT !.pc = "findOne", !.data = Merged(runs[r].res), !.saveDay = clock]]
    /\ UNCHANGED <<users, calls, clock, store>>

\* the controller calls saveHealthData(userId, { heart_rate }) directly
DirectSaveBegin(r, u, hr) ==
    /\ runs[r].pc = "idle"
    /\ users[u].found
    /\ runs' = [runs EXCEPT ![r] =
            [@ EXCEPT !.kind = "save", !.pc = "findOne", !.user = u, !.day = clock,
                      !.data = [m \in {"heart_rate"} |-> hr], !.saveDay = clock]]
    /\ UNCHANGED <<users, calls, clock, store>>

\* saveHealthData: findOne answers; the entity is created or assigned to and
\* save is awaited
FindOne(r) ==
    /\ runs[r].pc = "findOne"
    /\ LET hit == Matching(store, runs[r].user, runs[r].saveDay)
       IN  \E id \in (IF hit = {} THEN {0} ELSE hit) :
               runs' = [runs EXCEPT ![r] =
                   [@ EXCEPT !.pc = "saving", !.found = id,
                             !.ent = IF id = 0
                                     THEN CreateEntity(runs[r].user, runs[r].saveDay, runs[r].data)
                                     ELSE AssignEntity(store[id], runs[r].data)]]
    /\ UNCHANGED <<users, calls, clock, store>>

\* the id of the row a save writes
RowId(tbl, id) == IF id = 0 THEN Len(tbl) + 1 ELSE id

\* saveHealthData: save completes and the saved entity is returned
SaveWrite(r) ==
    /\ runs[r].pc = "saving"
    /\ store' = SaveRow(store, runs[r].found, runs[r].ent)
    /\ runs' = [runs EXCEPT ![r] =
            [@ EXCEPT !.pc = "done", !.ret = runs[r].ent,
                      !.row = RowId(store, runs[r].found)]]
    /\ UNCHANGED <<users, calls, clock>>

\* midnight passes
Midnight ==
    /\ clock < MaxDay
    /\ clock' = clock + 1
    /\ UNCHANGED <<users, calls, store, runs>>

(***************************************************************************)
(* SpecFetch: one fetchAndSaveHealthData run against a scripted provider.  *)
(* The provider has, for each metric, either no bucket or one bucket with  *)
(* one point, and may answer any query 401, 403 or 500.                    *)
(***************************************************************************)
SamplePoint(m) ==
    CASE m \in {"steps", "active_minutes"} -> Pt(Undef, 5, 60, 90)
      [] m = "distance" -> Pt(3000, Undef, 60, 90)
      [] m = "speed" -> Pt(15, Undef, 60, 90)
      [] m = "heart_rate" -> Pt(64 * HrScale, Undef, 60, 60)
      [] m = "calories" -> Pt(5 * CalScale, Undef, 60, 90)
      [] OTHER -> Pt(5, Undef, 60, 90)

FetchBodies(m) ==
    IF m \in {"calories"}
    THEN {<<>>, << << <<SamplePoint(m)>> >> >>}
    ELSE {<< << <<SamplePoint(m)>> >> >>}

Script(a, t, b) == [r1 |-> a, tok |-> t, r2 |-> b]

FetchFailures == {FitFail(s, "") : s \in {UNAUTHORIZED, FORBIDDEN, INTERNAL_SERVER_ERROR}}

\* the token endpoint re-issues the stored access token or rejects the
\* refresh token (token rotation is exercised in SpecExec)
FetchTokens == {TokenOk(1, None), TokenFail(BAD_REQUEST)}

SimpleScripts(m) ==
    {Script(a, t, b) :
        a \in {FitOk(d) : d \in FetchBodies(m)} \cup FetchFailures,
        t \in FetchTokens,
        b \in {FitOk(d) : d \in FetchBodies(m)} \cup {FitFail(FORBIDDEN, "")}}

\* a query that is answered at once
Plain(a) == Script(a, TokenFail(BAD_REQUEST), a)

HeartRateScripts ==
    {[agg |-> a, list |-> Plain(l), sets |-> <<Plain(d)>>] :
        a \in SimpleScripts("heart_rate"),
        l \in {FitOk(<<"stream1">>), FitFail(FORBIDDEN, "")},
        d \in {FitOk(<<SamplePoint("heart_rate")>>), FitFail(INTERNAL_SERVER_ERROR, "")}}

FetchScripts(m) == IF m = "heart_rate" THEN HeartRateScripts ELSE SimpleScripts(m)

UserRows == {NoUser} \cup {UserRow(a, r) : a \in 0..MaxToken, r \in 0..MaxToken}

\* every way a fetcher can end for a user row, over the scripts
FetchEffects == [m \in MetricSet |-> [usr \in UserRows |->
                    {Fetch(m, usr, sc) : sc \in FetchScripts(m)}]]

FetchRun == 1

\* a row stored by an earlier fetch of day 0
EarlierRow == Row("u1", 0, [m \in MetricSet |-> 9])

InitFetch ==
    /\ users \in {t \in ExecUsers : ~t["u2"].found /\ t["u1"] \in {UserRow(None, 1), UserRow(1, 1)}}
    /\ calls = [c \in CallIds |-> IdleCall]
    /\ clock = 0
    /\ store \in {<<>>, <<EarlierRow>>}
    /\ runs = [r \in RunIds |-> IdleRun]

NextFetch ==
    \/ \E u \in UserIds : FetchAllBegin(FetchRun, u)
    \/ \E m \in MetricSet :
           \E f \in FetchEffects[m][users[runs[FetchRun].user]] : FetcherSettle(FetchRun, m, f)
    \/ Assemble(FetchRun)
    \/ FindOne(FetchRun)
    \/ SaveWrite(FetchRun)

SpecFetch == InitFetch /\ [][NextFetch]_vars

(***************************************************************************)
(* fetchRealDataFromGoogleFit: for each of the last `days` days, skip the  *)
(* day if a row exists, else fetch the nine metrics and insert a row when  *)
(* there is some data.  today is computed once, on entry.                  *)
(***************************************************************************)
BackfillBegin(r, u, n) ==
    /\ runs[r].pc = "idle"
    /\ users[u].found
    /\ runs' = [runs EXCEPT ![r] =
            [@ EXCEPT !.kind = "backfill", !.pc = "bfFind", !.user = u, !.day = clock,
                      !.i = 0, !.days = n, !.count = 0, !.cycles = 0, !.skips = 0,
                      !.rested = TRUE, !.visited = <<>>]]
    /\ UNCHANGED <<users, calls, clock, store>>

\* (mutant) the loop test lets one more day in
NextDayOneMore(run) ==
    [run EXCEPT !.i = run.i + 1,
                !.pc = IF run.i + 1 <= run.days THEN "bfFind" ELSE "done"]

\* i++ and the loop test; the run returns fetchedCount when the loop ends
NextDay(run) ==
    [run EXCEPT !.i = run.i + 1,
                !.pc = IF run.i + 1 < run.days THEN "bfFind" ELSE "done"]

\* (mutant) the day is fetched whether or not a row exists
BackfillFindOneAlways(r) ==
    /\ runs[r].pc = "bfFind"
    /\ runs' = [runs EXCEPT ![r] = [@ EXCEPT !.pc = "bfFetch"]]
    /\ UNCHANGED <<users, calls, clock, store>>

\* findOne for the i-th day back answers: continue if a row exists.  skips
\* counts the days skipped, cycles (below) the days fetched.
BackfillFindOne(r) ==
    /\ runs[r].pc = "bfFind"
    /\ runs' = [runs EXCEPT ![r] =
            IF Matching(store, runs[r].user, runs[r].day - runs[r].i) # {}
            THEN NextDay([@ EXCEPT !.skips = @ + 1,
                                   !.visited = Append(@, runs[r].day - runs[r].i)])
            ELSE [@ EXCEPT !.pc = "bfFetch",
                           !.visited = Append(@, runs[r].day - runs[r].i)]]
    /\ UNCHANGED <<users, calls, clock, store>>

\* steps > 0 || heartRate || calories || distance
HasSomeData(d) ==
    \/ d["steps"] > 0
    \/ Truthy(d["heart_rate"])
    \/ Truthy(d["calories"])
    \/ Truthy(d["distance"])

\* the nine fetchers of a run, each run to completion against answers p
SettledWith(usr, p) == [m \in MetricSet |-> Fulfilled(Fetch(m, usr, p[m]).value)]

ErrorsWith(usr, p) == [m \in MetricSet |-> Fetch(m, usr, p[m]).err]

\* allSettled resolves for the day: the entity is created when there is
\* some data, else the day is left without a row
BackfillSettle(r, p) ==
    /\ runs[r].pc = "bfFetch"
    /\ LET d == Merged(SettledWith(users[runs[r].user], p))
       IN  runs' = [runs EXCEPT ![r] =
               IF HasSomeData(d)
               THEN [@ EXCEPT !.pc = "bfSave", !.cycles = @ + 1, !.rested = FALSE,
                              !.res = SettledWith(users[runs[r].user], p),
                              !.ent = Row(runs[r].user, runs[r].day - runs[r].i, d)]
               ELSE [@ EXCEPT !.pc = "bfDelay", !.cycles = @ + 1, !.rested = FALSE,
                              !.res = SettledWith(users[runs[r].user], p)]]
    /\ UNCHANGED <<users, calls, clock, store>>

\* save inserts the created entity; fetchedCount++
BackfillSave(r) ==
    /\ runs[r].pc = "bfSave"
    /\ store' = SaveRow(store, 0, runs[r].ent)
    /\ runs' = [runs EXCEPT ![r] =
            [@ EXCEPT !.pc = "bfDelay", !.count = @ + 1, !.row = RowId(store, 0),
                      !.ent = NoRow]]
    /\ UNCHANGED <<users, calls, clock>>

\* save rejects (the database refuses the insert): the catch logs the
\* error and the loop goes on with the next day, past the delay
BackfillSaveFails(r) ==
    /\ runs[r].pc = "bfSave"
    /\ runs' = [runs EXCEPT ![r] = NextDay([@ EXCEPT !.ent = NoRow])]
    /\ UNCHANGED <<users, calls, clock, store>>

\* the 500 ms delay elapses; rested tells that the delay has elapsed since
\* the last fetch cycle
BackfillDelay(r) ==
    /\ runs[r].pc = "bfDelay"
    /\ runs' = [runs EXCEPT ![r] = NextDay([@ EXCEPT !.rested = TRUE])]
    /\ UNCHANGED <<users, calls, clock, store>>

(***************************************************************************)
(* Spec: runs of fetchAndSaveHealthData, fetchRealDataFromGoogleFit and    *)
(* saveHealthData of registered users, interleaved at their awaits, while  *)
(* days pass.  The provider answers the nine queries of a run according to *)
(* a profile: the metrics in denied are answered 403, those in quiet with  *)
(* no bucket, the others with one point; nothing is answered 401, so no    *)
(* token is refreshed.                                                     *)
(***************************************************************************)
SampleBody(m) == << << <<SamplePoint(m)>> >> >>

ProfileOf(denied, quiet) ==
    [m \in MetricSet |->
        LET a == IF m \in denied THEN FitFail(FORBIDDEN, "")
                 ELSE FitOk(IF m \in quiet THEN <<>> ELSE SampleBody(m))
        IN  IF m = "heart_rate"
            THEN [agg |-> Plain(a), list |-> Plain(FitFail(FORBIDDEN, "")), sets |-> <<>>]
            ELSE Plain(a)]

Profiles ==
    {ProfileOf(d, q) : d \in {{}, {"weight", "calories"}}, q \in {{}, MetricSet}}
        \cup {ProfileOf({}, MetricSet \ {"weight"})}

\* body.heartRate || 72
DefaultHeartRate == 72

\* the nine fetchers of a fetchAndSaveHealthData run settle
FetchAllSettle(r, p) ==
    /\ runs[r].pc = "fetching"
    /\ ~AllSettled(runs[r].res)
    /\ runs' = [runs EXCEPT ![r] =
            [@ EXCEPT !.res = SettledWith(users[runs[r].user], p),
                      !.err = ErrorsWith(users[runs[r].user], p)]]
    /\ UNCHANGED <<users, calls, clock, store>>

Init ==
    /\ users = [u \in UserIds |-> UserRow(1, 1)]
    /\ calls = [c \in CallIds |-> IdleCall]
    /\ clock = 0
    /\ store = <<>>
    /\ runs = [r \in RunIds |-> IdleRun]

Next ==
    \/ \E r \in RunIds, u \in UserIds : FetchAllBegin(r, u)
    \/ \E r \in RunIds, p \in Profiles : FetchAllSettle(r, p)
    \/ \E r \in RunIds : Assemble(r)
    \/ \E r \in RunIds, u \in UserIds : DirectSaveBegin(r, u, DefaultHeartRate)
    \/ \E r \in RunIds : FindOne(r)
    \/ \E r \in RunIds : SaveWrite(r)
    \/ \E r \in RunIds, u \in UserIds, n \in 1..MaxBackfillDays : BackfillBegin(r, u, n)
    \/ \E r \in RunIds : BackfillFindOne(r)
    \/ \E r \in RunIds, p \in Profiles : BackfillSettle(r, p)
    \/ \E r \in RunIds : BackfillSave(r)
    \/ \E r \in RunIds : BackfillSaveFails(r)
    \/ \E r \in RunIds : BackfillDelay(r)
    \/ Midnight

Spec == Init /\ [][Next]_vars

(***************************************************************************)
(* SpecBackfill: one run of fetchRealDataFromGoogleFit, on a table that    *)
(* may hold a row for today or for yesterday, while midnight may pass.     *)
(* Every await of the run eventually resolves: the existence check, the    *)
(* nine fetchers, the save (one way or the other) and the delay.           *)
(***************************************************************************)
BackfillStores ==
    {<<>>, <<Row("u1", 0, [m \in MetricSet |-> 9])>>,
     <<Row("u1", -1, [m \in MetricSet |-> 9])>>}

InitBackfill ==
    /\ users = [u \in UserIds |-> UserRow(1, 1)]
    /\ calls = [c \in CallIds |-> IdleCall]
    /\ clock = 0
    /\ store \in BackfillStores
    /\ runs = [r \in RunIds |-> IdleRun]

BackfillAwaits(r) ==
    \/ BackfillFindOne(r)
    \/ \E p \in Profiles : BackfillSettle(r, p)
    \/ BackfillSave(r)
    \/ BackfillSaveFails(r)
    \/ BackfillDelay(r)

NextBackfill ==
    \/ \E u \in UserIds, n \in 1..MaxBackfillDays : BackfillBegin(FetchRun, u, n)
    \/ BackfillAwaits(FetchRun)
    \/ Midnight

SpecBackfill ==
    InitBackfill /\ [][NextBackfill]_vars /\ WF_vars(BackfillAwaits(FetchRun))

(***************************************************************************)
(* SpecResolve: fetchHeartRate and fetchSleepDuration, each called once    *)
(* per run and run to completion against scripted provider answers.  The   *)
(* run keeps the answers it was given, the value the fetcher resolved with *)
(* and the number of raw dataset calls it made.                            *)
(***************************************************************************)
MaxStreams == 2

\* heart-rate points: 60.5 as fpVal, 64 as intVal, or no value; with a start
\* time (minutes) or without
HrPoints ==
    {Pt(605, Undef, t, t) : t \in {0, 60, 90}}
        \cup {Pt(Undef, 64 * HrScale, t, t) : t \in {0, 60, 90}}
        \cup {Pt(Undef, Undef, 60, 60)}

\* sequences over S of length lo..hi
SeqsOf(S, lo, hi) == UNION {[1..n -> S] : n \in lo..hi}

\* aggregate answers: no bucket; one bucket with one dataset of up to two
\* points; two datasets or two buckets of one point each
HrBodies ==
    {<<>>}
        \cup {<< <<q>> >> : q \in SeqsOf(HrPoints, 0, 2)}
        \cup {<< << <<a>>, <<b>> >> >> : a \in HrPoints, b \in HrPoints}
        \cup {<< << <<a>> >>, << <<b>> >> >> : a \in HrPoints, b \in HrPoints}

\* scripts that end in stage 1 or find no stream to ask
AggregateScripts ==
    {[agg |-> Plain(a), list |-> Plain(FitFail(s, "")), sets |-> <<>>] :
        a \in {FitOk(b) : b \in HrBodies}
                 \cup {FitFail(FORBIDDEN, ""), FitFail(INTERNAL_SERVER_ERROR, "")},
        s \in {FORBIDDEN, INTERNAL_SERVER_ERROR}}

\* what a raw stream's dataset call is answered with
StreamAnswers ==
    {Plain(FitFail(INTERNAL_SERVER_ERROR, "")), Plain(FitFail(FORBIDDEN, "")),
     Plain(FitOk(<<>>)),
     Plain(FitOk(<<Pt(70 * HrScale, Undef, 60, 60)>>)),
     Plain(FitOk(<<Pt(70 * HrScale, Undef, 0, 0)>>)),
     Plain(FitOk(<<Pt(605, Undef, 60, 60), Pt(Undef, 64 * HrScale, 90, 90)>>))}

\* scripts in which stage 1 yields nothing and streams are listed
RawScripts ==
    {[agg |-> Plain(FitOk(b)), list |-> Plain(FitOk([i \in 1..Len(q) |-> i])), sets |-> q] :
        b \in {<<>>, << << <<Pt(Undef, Undef, 60, 60)>> >> >>},
        q \in SeqsOf(StreamAnswers, 1, MaxStreams)}

\* sleep segments: 10:00-10:30 and 11:00-13:00 (minutes of the day), with a
\* value field or without, and segments lacking a time
SleepPoints ==
    {Pt(v, Undef, t[1], t[2]) :
        v \in {Undef, 9}, t \in {<<600, 630>>, <<660, 780>>, <<0, 630>>, <<600, 0>>}}

SleepBodies ==
    {<<>>}
        \cup {<< <<q>> >> : q \in SeqsOf(SleepPoints, 0, 2)}
        \cup {<< << <<a>>, <<b>> >> >> : a \in SleepPoints, b \in SleepPoints}
        \cup {<< << <<a>> >>, << <<b>> >> >> : a \in SleepPoints, b \in SleepPoints}

SleepScripts ==
    {Plain(a) : a \in {FitOk(b) : b \in SleepBodies} \cup {FitFail(FORBIDDEN, "")}}

\* the metrics resolved by summing one value per bucket
SumMetrics == {"steps", "calories", "distance", "active_minutes"}

\* the metrics resolved by reading the last bucket
LatestMetrics == {"weight", "height", "speed"}

\* a second value for a bucket: 7 steps or minutes, 2.4 kcal, 2000 m, 25 kg,
\* m or m/s
OtherPoint(m) ==
    CASE m = "calories" -> Pt(24, Undef, 90, 120)
      [] m = "distance" -> Pt(2000, Undef, 90, 120)
      [] m \in LatestMetrics -> Pt(25, Undef, 90, 120)
      [] OTHER -> Pt(Undef, 7, 90, 120)

\* a bucket without dataset, with a dataset without point, with one point,
\* or with two
SumBuckets(m) ==
    {<<>>, << <<>> >>, << <<SamplePoint(m)>> >>, << <<OtherPoint(m)>> >>,
     << <<OtherPoint(m), SamplePoint(m)>> >>}

\* windows of up to two day-buckets
SumScripts(m) == {Plain(FitOk(b)) : b \in SeqsOf(SumBuckets(m), 0, 2)}

ResolveScripts(m) ==
    CASE m = "heart_rate" -> AggregateScripts \cup RawScripts \cup HeartRateScripts
      [] m = "sleep_duration" -> SleepScripts \cup SimpleScripts(m)
      [] m \in SumMetrics \cup LatestMetrics -> SumScripts(m) \cup SimpleScripts(m)
      [] OTHER -> SimpleScripts(m)

\* the kind of error makeFitRequest threw into the fetcher of metric m on
\* its first query, "" when it returned
ExecutorFailure(m, usr, sc) ==
    LET o == makeFitRequest(usr, IF m = "heart_rate" THEN sc.agg ELSE sc).out
    IN  IF o.ok THEN "" ELSE o.kind

\* the fetcher of metric m is called for user u and resolves
Resolve(r, u, m, sc) ==
    /\ runs[r].pc = "idle"
    /\ users[u].found
    /\ LET f == Fetch(m, users[u], sc)
       IN  /\ runs' = [runs EXCEPT ![r] =
                   [@ EXCEPT !.kind = "resolve", !.pc = "done", !.user = u, !.day = clock,
                             !.script = [metric |-> m, sc |-> sc],
                             !.res[m] = Fulfilled(f.value), !.err[m] = f.err,
                             !.asked = f.asked, !.log = f.log,
                             !.why = ExecutorFailure(m, users[u], sc)]]
           /\ users' = [users EXCEPT ![u] = f.usr]
    /\ UNCHANGED <<calls, clock, store>>

InitResolve ==
    /\ users = [u \in UserIds |-> IF u = "u1" THEN UserRow(1, 1) ELSE UserRow(None, 1)]
    /\ calls = [c \in CallIds |-> IdleCall]
    /\ clock = 0
    /\ store = <<>>
    /\ runs = [r \in RunIds |-> IdleRun]

NextResolve ==
    \E u \in UserIds, m \in MetricSet :
        \E sc \in ResolveScripts(m) : Resolve(FetchRun, u, m, sc)

SpecResolve == InitResolve /\ [][NextResolve]_vars

(***************************************************************************)
(* Claims about makeFitRequest, checked under SpecExec.                    *)
(***************************************************************************)

\* C1: whatever the provider answers, one makeFitRequest call invokes the
\* refresher at most once and sends at most two provider calls; a retry that
\* is itself answered 401 ends the call with no second refresh and no third
\* provider call.
C1_OneRefreshOneRetry ==
    \A c \in CallIds :
        /\ calls[c].nRefresh <= 1
        /\ calls[c].nProvider <= 2
        /\ calls[c].r2.status = UNAUTHORIZED =>
               /\ calls[c].pc = "done"
               /\ calls[c].nRefresh = 1
               /\ calls[c].nProvider = 2

\* the retry of a call was answered 401
C1_Witness ==
    \E c \in CallIds :
        /\ calls[c].pc = "done"
        /\ calls[c].s1 = UNAUTHORIZED
        /\ calls[c].r2.status = UNAUTHORIZED

Retried(c) == calls[c].s1 = UNAUTHORIZED /\ calls[c].newToken # None

\* C2: after a first 401 and a successful refresh the request is sent again
\* exactly once, with the access token that refresh returned, and the
\* retry's answer decides the call: its data on 2xx, else an error with the
\* retry's status (500 when there was no response) and the provider message.
C2_RetryOnceWithNewToken ==
    \A c \in CallIds :
        Retried(c) =>
            /\ calls[c].pc \in {"retry", "done"}
            /\ calls[c].nProvider = 2
            /\ calls[c].retryToken = calls[c].newToken
            /\ calls[c].pc = "done" =>
                   IF calls[c].r2.status = HTTP_OK
                   THEN calls[c].out.ok /\ calls[c].out.data = calls[c].r2.data
                   ELSE /\ ~calls[c].out.ok
                        /\ calls[c].out.kind = "RetryFailed"
                        /\ calls[c].out.status =
                               (IF calls[c].r2.status = NoResponse
                                THEN INTERNAL_SERVER_ERROR ELSE calls[c].r2.status)
                        /\ calls[c].r2.msg # "" => calls[c].out.msg = calls[c].r2.msg

\* one call retried with a token that differs from the one it first sent and
\* got data; another retried and failed
C2_Witness ==
    \E c, d \in CallIds :
        /\ Retried(c) /\ calls[c].pc = "done" /\ calls[c].out.ok
        /\ calls[c].token # calls[c].retryToken
        /\ Retried(d) /\ calls[d].pc = "done" /\ ~calls[d].out.ok

(***************************************************************************)
(* Claims about fetchAndSaveHealthData, checked under SpecFetch.           *)
(***************************************************************************)
FetchAllRuns == {r \in RunIds : runs[r].kind = "fetchAll"}

PastBarrier(r) == runs[r].pc \in {"findOne", "saving", "done"}

\* the values a fetcher resolves with when its query is answered 200
OkValues(m) ==
    {Fetch(m, UserRow(1, 1), sc).value :
        sc \in {x \in FetchScripts(m) :
                   IF m = "heart_rate" THEN x.agg.r1.status = HTTP_OK
                   ELSE x.r1.status = HTTP_OK}}

\* C3: whatever each of the nine fetchers meets (success, 403, another
\* provider error, a failed refresh, no token), the run goes on to assemble
\* and return a record with all nine metric slots, and every metric whose
\* query did not succeed holds its default: 0 for steps, null for the rest.
C3_AlwaysAFullRecord ==
    \A r \in FetchAllRuns :
        /\ \A m \in MetricSet :
               /\ runs[r].res[m].status \in {"pending", "fulfilled"}
               /\ runs[r].err[m] \in {"unavailable", "failed"} =>
                      runs[r].res[m] = Fulfilled(DefaultOf(m))
        /\ PastBarrier(r) =>
               /\ DOMAIN runs[r].data = MetricSet
               /\ \A m \in MetricSet :
                      runs[r].err[m] # "ok" => runs[r].data[m] = DefaultOf(m)
        /\ runs[r].pc = "done" =>
               /\ MetricSet \subseteq DOMAIN runs[r].ret
               /\ \A m \in MetricSet :
                      runs[r].err[m] # "ok" => runs[r].ret[m] = DefaultOf(m)

\* a run returned although steps and two more metrics failed in three
\* different ways
C3_Witness ==
    \E r \in FetchAllRuns :
        /\ runs[r].pc = "done"
        /\ runs[r].err["steps"] = "failed"
        /\ runs[r].err["weight"] = "unavailable"
        /\ runs[r].err["speed"] = "failed"
        /\ runs[r].err["distance"] = "ok"
        /\ runs[r].ret["distance"] = 3

\* C4: each slot of the merged record is what that metric's own fetcher
\* resolved with; a metric whose query succeeded carries the value parsed
\* from its own answer whichever of the other fetchers failed, and no
\* fetcher is left unsettled.
C4_SlotsAreIndependent ==
    \A r \in FetchAllRuns :
        PastBarrier(r) =>
            \A m \in MetricSet :
                /\ runs[r].res[m].status = "fulfilled"
                /\ runs[r].data[m] = runs[r].res[m].value
                /\ runs[r].err[m] = "ok" => runs[r].data[m] \in OkValues(m)

\* eight fetchers failed and the ninth still contributed its value
C4_Witness ==
    \E r \in FetchAllRuns : \E m \in MetricSet :
        /\ PastBarrier(r)
        /\ runs[r].err[m] = "ok"
        /\ runs[r].data[m] \notin {0, Null}
        /\ \A k \in MetricSet \ {m} : runs[r].err[k] # "ok"

C6_WaitForAll ==
    \A r \in FetchAllRuns :
        /\ PastBarrier(r) => AllSettled(runs[r].res)
        /\ ~AllSettled(runs[r].res) =>
               /\ runs[r].pc = "fetching"
               /\ runs[r].data = NoData
               /\ runs[r].ret = NoRow
               /\ runs[r].row = 0

\* the save was entered after a fetcher had failed
C6_Witness ==
    \E r \in FetchAllRuns :
        /\ runs[r].pc = "findOne"
        /\ \E m, k \in MetricSet : runs[r].err[m] = "failed" /\ runs[r].err[k] = "ok"

\* C10 as stated: a run for a user who has no access token stored returns
\* no record.
C10_NoRecordWithoutToken ==
    \A r \in FetchAllRuns :
        ~HasAccessToken(users[runs[r].user]) => runs[r].pc # "done"

(***************************************************************************)
(* Claims about the user_health_data table, checked under Spec.            *)
(***************************************************************************)

\* C7 as stated: when a fetchAndSaveHealthData run updates the row an
\* earlier run for the same user and day wrote, and its own fetch has no
\* value for a metric, the entity it is about to save keeps the value the
\* earlier run stored for that metric.
C7_AbsentDoesNotErase ==
    \A a, b \in FetchAllRuns :
        ( /\ a # b
          /\ runs[a].pc = "done"
          /\ runs[b].pc = "saving"
          /\ runs[b].user = runs[a].user
          /\ runs[b].saveDay = runs[a].saveDay
          /\ runs[b].found = runs[a].row ) =>
            \A m \in MetricSet :
                ( /\ runs[b].data[m] = Null
                  /\ runs[a].ret[m] # Null
                  /\ store[runs[b].found][m] = runs[a].ret[m] ) =>
                    runs[b].ent[m] = runs[a].ret[m]

\* C8 as stated: no two rows of the table have the same user and date.
C8_OneRowPerUserDay ==
    \A i, j \in 1..Len(store) :
        (store[i].user_id = store[j].user_id /\ store[i].date = store[j].date) => i = j

\* C9 as stated: when saveHealthData has been run twice with the same data
\* for the same user and day, the second run updating the row the first
\* wrote, the metric fields after the second are those after the first.
C9_SecondUpsertChangesNothing ==
    \A a, b \in RunIds :
        ( /\ a # b
          /\ runs[a].kind \in {"fetchAll", "save"} /\ runs[a].pc = "done"
          /\ runs[b].kind \in {"fetchAll", "save"} /\ runs[b].pc = "done"
          /\ runs[a].user = runs[b].user
          /\ runs[a].saveDay = runs[b].saveDay
          /\ runs[a].data = runs[b].data
          /\ runs[b].found = runs[a].row ) =>
            \A m \in MetricSet : runs[b].ret[m] = runs[a].ret[m]

(***************************************************************************)
(* Claims about the token refresh inside makeFitRequest, checked under     *)
(* SpecExec.  The interleaved calls are those of the fetchers of one run.  *)
(***************************************************************************)
GotUnauthorized == {c \in CallIds : calls[c].s1 = UNAUTHORIZED}

TotalRefreshes == SumSeq([c \in CallIds |-> calls[c].nRefresh])

\* C11: refreshes are not coalesced.  Every call whose first answer is 401
\* invokes the refresher exactly once itself, whatever the other calls have
\* done; when its refresh succeeds it writes the tokens once, sends exactly
\* one retry and ends with the retry's result; the refresher invocations of
\* all calls together are as many as the calls answered 401.
C11_RefreshPerFailingCall ==
    /\ \A c \in CallIds :
           /\ calls[c].nRefresh = (IF calls[c].s1 = UNAUTHORIZED THEN 1 ELSE 0)
           /\ (calls[c].pc = "done" /\ calls[c].newToken # None) =>
                  /\ calls[c].s1 = UNAUTHORIZED
                  /\ calls[c].nWrites = 1
                  /\ calls[c].nProvider = 2
                  /\ calls[c].out = (IF calls[c].r2.status = HTTP_OK
                                     THEN Success(calls[c].r2)
                                     ELSE RetryFailed(calls[c].r2))
    /\ TotalRefreshes = Cardinality(GotUnauthorized)

\* two calls of the same user were both answered 401, both refreshed and
\* both got data from their own retry
C11_Witness ==
    \E c, d \in CallIds :
        /\ c # d
        /\ calls[c].user = calls[d].user
        /\ calls[c].pc = "done" /\ calls[d].pc = "done"
        /\ calls[c].out.ok /\ calls[d].out.ok
        /\ calls[c].nWrites = 1 /\ calls[d].nWrites = 1
        /\ TotalRefreshes = 2

\* C12: whenever a call sends its retry, its write of the refreshed tokens
\* to the users table has completed: in the step that sends the retry the
\* call has made its one write and the table holds, for the call's user, the
\* access token the retry carries.
C12_WriteBeforeRetry ==
    [][\A c \in CallIds :
          (calls[c].pc # "retry" /\ calls'[c].pc = "retry") =>
              /\ calls'[c].nWrites = 1
              /\ users'[calls'[c].user].access_token = calls'[c].retryToken]_vars

\* a retry is in flight with a token other than the one first sent, and the
\* table already holds that token
C12_Witness ==
    \E c \in CallIds :
        /\ calls[c].pc = "retry"
        /\ calls[c].nWrites = 1
        /\ calls[c].retryToken # calls[c].token
        /\ users[calls[c].user].access_token = calls[c].retryToken

OthersIdle(c) == \A d \in CallIds \ {c} : calls[d].pc = "idle"

\* C13: when a refresh runs with no other call in progress and its exchange
\* succeeds, the write leaves in the user's row the access token of the
\* token answer and, as refresh token, the one of the answer if it has one,
\* else the one stored before; the refresh returns that access token.
C13_RefreshPersistsPair ==
    [][\A c \in CallIds :
          (calls[c].pc = "updateTokens" /\ calls'[c].pc # "updateTokens" /\ OthersIdle(c)) =>
              /\ users'[calls[c].user].found
              /\ users'[calls[c].user].access_token = calls[c].pend.access_token
              /\ users'[calls[c].user].refresh_token =
                     (IF calls[c].issued # None THEN calls[c].issued
                      ELSE users[calls[c].user].refresh_token)
              /\ calls'[c].newToken = calls[c].pend.access_token]_vars

\* a lone refresh has stored a new access token and a rotated refresh token
C13_Witness ==
    \E c \in CallIds :
        /\ OthersIdle(c)
        /\ calls[c].pc = "retry"
        /\ calls[c].newToken # calls[c].token
        /\ users[calls[c].user].access_token = calls[c].newToken
        /\ users[calls[c].user].refresh_token > 1

\* C14 as stated: in every interleaving of the calls, the write of a refresh
\* whose token answer carried no refresh token leaves the stored refresh
\* token as it is.
C14_UnissuedRefreshKeepsStored ==
    [][\A c \in CallIds :
          (calls[c].pc = "updateTokens" /\ calls'[c].pc # "updateTokens"
              /\ calls[c].issued = None) =>
              users'[calls[c].user].refresh_token = users[calls[c].user].refresh_token]_vars

\* C15 as stated: a call whose first answer is 403 or 404 ends with the
\* MetricUnavailable error.
C15_DeniedOrMissingIsUnavailable ==
    \A c \in CallIds :
        (calls[c].pc = "done" /\ calls[c].s1 \in {FORBIDDEN, NOT_FOUND}) =>
            (~calls[c].out.ok /\ calls[c].out.kind = "MetricUnavailable")

\* C16: a call whose first answer is 401 and whose refresh yields no token
\* (no refresh token stored, or the exchange answered 400, 500 or not at
\* all) ends with the ReauthRequired error, status 401, and has sent no
\* second provider call; while the refresh is under way only the first call
\* has been sent.
C16_RefreshFailureIsReauth ==
    \A c \in CallIds :
        /\ calls[c].pc \in {"refreshFind", "exchange", "updateTokens"} =>
               calls[c].nProvider = 1
        /\ (calls[c].pc = "done" /\ calls[c].s1 = UNAUTHORIZED /\ calls[c].newToken = None) =>
               /\ calls[c].out = ReauthRequired
               /\ calls[c].out.kind \notin {"MetricUnavailable", "ProviderError", "RetryFailed"}
               /\ calls[c].nProvider = 1
               /\ calls[c].r2 = NoFit
               /\ calls[c].retryToken = None
               /\ calls[c].nWrites = 0

\* one call failed its refresh at the token endpoint while another call of
\* the same user refreshed and got data
C16_Witness ==
    \E c, d \in CallIds :
        /\ calls[c].pc = "done" /\ calls[c].s1 = UNAUTHORIZED
        /\ calls[c].out.kind = "ReauthRequired"
        /\ users[calls[c].user].refresh_token # None
        /\ calls[d].user = calls[c].user
        /\ calls[d].pc = "done" /\ calls[d].s1 = UNAUTHORIZED /\ calls[d].out.ok

\* C17: a call for an unknown user, or for a user whose access token is
\* empty, ends with the Unauthenticated error having sent no provider call
\* and invoked no refresh; every call that goes further holds a token.
C17_NoTokenIsUnauthenticated ==
    \A c \in CallIds :
        calls[c].pc \notin {"idle", "getToken"} =>
            IF calls[c].token = None
            THEN /\ calls[c].pc = "done"
                 /\ calls[c].out = Unauthenticated
                 /\ calls[c].nProvider = 0
                 /\ calls[c].nRefresh = 0
                 /\ calls[c].nWrites = 0
                 /\ calls[c].s1 = NoFit.status
                 /\ ~HasAccessToken(users[calls[c].user])
            ELSE calls[c].nProvider >= 1

\* a call for an unknown user and a call for a user without access token
\* have both ended Unauthenticated
C17_Witness ==
    \E c, d \in CallIds :
        /\ calls[c].pc = "done" /\ calls[c].out.kind = "Unauthenticated"
        /\ ~users[calls[c].user].found
        /\ calls[d].pc = "done" /\ calls[d].out.kind = "Unauthenticated"
        /\ users[calls[d].user].found
        /\ users[calls[d].user].access_token = None

(***************************************************************************)
(* Claims about the heart-rate and sleep resolvers, checked under          *)
(* SpecResolve.                                                            *)
(***************************************************************************)
\* the provider answer a scripted query ends with: the answer to the retry
\* when the first answer was 401 and the refresh gave a token
Answered(sc) ==
    IF sc.r1.status = UNAUTHORIZED /\ ExchangeOk(sc.tok) THEN sc.r2 ELSE sc.r1

\* the heart-rate resolutions whose aggregate query was answered with a body
HrAggRuns ==
    {r \in RunIds : /\ runs[r].kind = "resolve"
                    /\ HasAccessToken(users[runs[r].user])
                    /\ runs[r].script.metric = "heart_rate"
                    /\ Answered(runs[r].script.sc.agg).status = HTTP_OK}

AggPoints(r) == AllPoints(Answered(runs[r].script.sc.agg).data)

\* the positions of the points carrying a value, in either field
Valued(pts) == {i \in 1..Len(pts) : pts[i].fpVal # Undef \/ pts[i].intVal # Undef}

\* those of them with a usable start timestamp
Stamped(pts) == {i \in Valued(pts) : pts[i].startN > 0}

ValueAt(pts, i) == IF pts[i].fpVal # Undef THEN pts[i].fpVal ELSE pts[i].intVal

ValueSum(pts) == SumSeq([i \in 1..Len(pts) |-> IF i \in Valued(pts) THEN ValueAt(pts, i) ELSE 0])

\* v is an integer nearest to num / den
Nearest(v, num, den) ==
    /\ 2 * (v * den - num) <= den
    /\ 2 * (num - v * den) <= den

\* C18: in the aggregate stage, when some valued point of the response has
\* a usable start timestamp the resolver returns the (rounded) value of a
\* point with the greatest start timestamp; when none has one but values
\* were collected it returns their (rounded) arithmetic mean.
C18_LatestWinsElseMean ==
    \A r \in HrAggRuns :
        LET pts == AggPoints(r)
            v == runs[r].res["heart_rate"].value
        IN  /\ Stamped(pts) # {} =>
                \E i \in Stamped(pts) :
                    /\ \A j \in Stamped(pts) : pts[j].startN <= pts[i].startN
                    /\ Nearest(v, ValueAt(pts, i), HrScale)
            /\ (Stamped(pts) = {} /\ Valued(pts) # {}) =>
                Nearest(v, ValueSum(pts), HrScale * Cardinality(Valued(pts)))

\* two points stamped T1 < T2 with values 60.5 and 64: the resolver returned
\* 64, not the mean 62
C18_Witness ==
    \E r \in HrAggRuns :
        LET pts == AggPoints(r)
        IN  /\ Len(pts) = 2
            /\ pts[1].fpVal = 605 /\ pts[1].startN = 60
            /\ pts[2].intVal = 64 * HrScale /\ pts[2].startN = 90
            /\ runs[r].res["heart_rate"].value = 64
            /\ ~Nearest(64, ValueSum(pts), HrScale * 2)

\* the heart-rate resolutions that reached the raw streams: the aggregate
\* answer held no value and the listing named at least one stream
HrRawRuns ==
    {r \in HrAggRuns : /\ Valued(AggPoints(r)) = {}
                       /\ runs[r].script.sc.list.r1.status = HTTP_OK
                       /\ Len(runs[r].script.sc.list.r1.data) > 0}

\* the answer to the dataset call of the i-th listed stream
StreamAnswer(r, i) == runs[r].script.sc.sets[i].r1

\* the i-th stream yields a value: its dataset call succeeded and some point
\* of it has a value and a usable start timestamp
Yields(r, i) ==
    /\ StreamAnswer(r, i).status = HTTP_OK
    /\ Stamped(StreamAnswer(r, i).data) # {}

\* v is the (rounded) value of a latest point of the i-th stream
LatestOfStream(r, i, v) ==
    LET pts == StreamAnswer(r, i).data
    IN  \E k \in Stamped(pts) :
            /\ \A j \in Stamped(pts) : pts[j].startN <= pts[k].startN
            /\ Nearest(v, ValueAt(pts, k), HrScale)

\* C19: in the raw-source fallback the listed streams are fetched one at a
\* time in listing order; the resolver returns the value of the first
\* stream that yields one and fetches no later stream; a stream whose
\* dataset fetch fails or yields nothing is skipped; when no stream yields,
\* every stream was fetched and the resolver returns nothing.
C19_FirstYieldingStream ==
    \A r \in HrRawRuns :
        LET n == Len(runs[r].script.sc.list.r1.data)
            v == runs[r].res["heart_rate"].value
        IN  IF \E i \in 1..n : Yields(r, i)
            THEN \E i \in 1..n :
                    /\ Yields(r, i)
                    /\ \A j \in 1..(i - 1) : ~Yields(r, j)
                    /\ runs[r].asked = i
                    /\ LatestOfStream(r, i, v)
            ELSE v = Null /\ runs[r].asked = n

\* an empty aggregate response, a first stream whose dataset fetch failed
\* and a second stream holding a single point of value 70: the resolver
\* asked both and returned 70
C19_Witness ==
    \E r \in HrRawRuns :
        /\ runs[r].script.sc.agg.r1.data = <<>>
        /\ Len(runs[r].script.sc.sets) = 2
        /\ StreamAnswer(r, 1).status = INTERNAL_SERVER_ERROR
        /\ StreamAnswer(r, 2) = FitOk(<<Pt(70 * HrScale, Undef, 60, 60)>>)
        /\ runs[r].asked = 2
        /\ runs[r].res["heart_rate"].value = 70

\* the sleep resolutions, and the answer each was given
SleepRuns ==
    {r \in RunIds : /\ runs[r].kind = "resolve"
                    /\ HasAccessToken(users[runs[r].user])
                    /\ runs[r].script.metric = "sleep_duration"}

SleepAnswer(r) == Answered(runs[r].script.sc)

\* the value resolved, in tenths of an hour
SleepValue(r) == runs[r].res["sleep_duration"].value

\* end minus start, for a point that has both timestamps
Duration(p) == IF p.startN > 0 /\ p.endN > 0 THEN p.endN - p.startN ELSE 0

DurationSum(pts) == SumSeq([i \in 1..Len(pts) |-> Duration(pts[i])])

\* minutes slept over every point of every dataset of every bucket
MinutesOfAllPoints(body) == DurationSum(AllPoints(body))

\* minutes slept over the points of each bucket's first dataset
MinutesOfFirstDatasets(body) ==
    SumSeq([b \in 1..Len(body) |-> IF Len(body[b]) > 0 THEN DurationSum(body[b][1]) ELSE 0])

\* C20 (as stated): fetchSleepDuration returns the sum, over all buckets and
\* all points of the response, of end minus start, converted to hours.
C20_SumOverAllPoints ==
    \A r \in SleepRuns :
        SleepAnswer(r).status = HTTP_OK =>
            SleepValue(r) * 60 = MinutesOfAllPoints(SleepAnswer(r).data) * 10

\* C20 (amended): fetchSleepDuration sums end minus start over the points
\* of the first dataset of every bucket, whatever their value fields, and
\* returns that sum in hours when it is positive; when it is not, or when
\* the query failed, it returns nothing.
C20_SumOverFirstDatasets ==
    \A r \in SleepRuns :
        LET a == SleepAnswer(r)
            total == IF a.status = HTTP_OK THEN MinutesOfFirstDatasets(a.data) ELSE 0
        IN  IF total > 0
            THEN SleepValue(r) * 60 = total * 10
            ELSE SleepValue(r) = Null

\* segments 10:00-10:30 and 11:00-13:00, one of them with a value field:
\* 2.5 hours
C20_Witness ==
    \E r \in SleepRuns :
        /\ SleepAnswer(r) =
               FitOk(<< << <<Pt(9, Undef, 600, 630), Pt(Undef, Undef, 660, 780)>> >> >>)
        /\ SleepValue(r) = 25

(***************************************************************************)
(* Claims about fetchRealDataFromGoogleFit, checked under Spec.            *)
(***************************************************************************)
BackfillRuns == {r \in RunIds : runs[r].kind = "backfill"}

\* the day the run is visiting
VisitedDay(r) == runs[r].day - runs[r].i

\* the run has a stored record for the day it is visiting
DayStored(r) == Matching(store, runs[r].user, VisitedDay(r)) # {}

\* the days the run has skipped or fetched
DaysVisited(r) ==
    IF runs[r].pc \in {"bfFind", "bfFetch", "done"} THEN runs[r].i ELSE runs[r].i + 1

\* the step in which findOne answers
FindOneAnswers(r) ==
    runs[r].kind = "backfill" /\ runs[r].pc = "bfFind" /\ runs'[r] # runs[r]

\* C21: backfill runs a fetch cycle for exactly those visited days that
\* have no stored record when they are visited; a day that has one triggers
\* no fetch and its record is left unchanged.  Every visited day is either
\* skipped or fetched once.
C21_FetchExactlyUnstoredDays ==
    /\ [](\A r \in BackfillRuns :
            /\ runs[r].cycles + runs[r].skips = DaysVisited(r)
            /\ (runs[r].pc = "done" => runs[r].i = runs[r].days))
    /\ [][\A r \in RunIds :
            /\ (FindOneAnswers(r) /\ DayStored(r)) =>
                   /\ runs'[r].pc \in {"bfFind", "done"}
                   /\ runs'[r].i = runs[r].i + 1
                   /\ runs'[r].cycles = runs[r].cycles
                   /\ store' = store
            /\ (FindOneAnswers(r) /\ ~DayStored(r)) =>
                   /\ runs'[r].pc = "bfFetch"
                   /\ runs'[r].i = runs[r].i
            /\ (runs[r].kind = "backfill" /\ runs'[r].cycles # runs[r].cycles) =>
                   /\ runs[r].pc = "bfFetch"
                   /\ runs'[r].cycles = runs[r].cycles + 1]_vars

\* a backfill over two days, one of them already stored, has returned after
\* one skip and one fetch cycle
C21_Witness ==
    \E r \in BackfillRuns :
        /\ runs[r].pc = "done"
        /\ runs[r].days = 2
        /\ runs[r].skips = 1
        /\ runs[r].cycles = 1

\* the fetch cycle of the visited day has just settled
CycleSettles(r) ==
    runs[r].kind = "backfill" /\ runs[r].pc = "bfFetch" /\ runs'[r].pc # "bfFetch"

\* the metrics a settled cycle resolved with a value: steps above zero, any
\* other metric neither absent nor zero
Yielded(res) ==
    {m \in MetricSet : res[m].status = "fulfilled" /\ res[m].value # Null /\ res[m].value # 0}

\* C22: the count returned by backfill is the number of fetched days whose
\* cycle yielded at least one non-absent metric among the nine: a settled
\* cycle is saved and counted exactly when some metric was yielded, be it
\* only weight, height, sleep, active minutes or speed.
C22_CountsAnyYieldedMetric ==
    [][\A r \in RunIds :
            CycleSettles(r) =>
                /\ runs'[r].count = runs[r].count
                /\ (runs'[r].pc = "bfSave") = (Yielded(runs'[r].res) # {})
                /\ runs'[r].pc \in {"bfSave", "bfDelay"}]_vars

\* the heart-rate resolutions
HrRuns ==
    {r \in RunIds : /\ runs[r].kind = "resolve"
                    /\ HasAccessToken(users[runs[r].user])
                    /\ runs[r].script.metric = "heart_rate"}

\* the streams asked before the i-th yielded nothing and were not denied
QuietBefore(r, i) ==
    \A j \in 1..(i - 1) : ~Yields(r, j) /\ StreamAnswer(r, j).status # FORBIDDEN

\* C23: a permission-denied answer at any stage of the heart-rate resolver
\* (aggregate query, stream listing, dataset fetch of a stream) makes it
\* return nothing at once: no further stage and no further stream is tried.
C23_DeniedEndsTheSearch ==
    /\ \A r \in HrRuns :
           Answered(runs[r].script.sc.agg).status = FORBIDDEN =>
               runs[r].res["heart_rate"].value = Null /\ runs[r].asked = 0
    /\ \A r \in HrAggRuns :
           (Valued(AggPoints(r)) = {} /\ runs[r].script.sc.list.r1.status = FORBIDDEN) =>
               runs[r].res["heart_rate"].value = Null /\ runs[r].asked = 0
    /\ \A r \in HrRawRuns :
           \A i \in 1..Len(runs[r].script.sc.sets) :
               (StreamAnswer(r, i).status = FORBIDDEN /\ QuietBefore(r, i)) =>
                   runs[r].res["heart_rate"].value = Null /\ runs[r].asked = i

\* the positions of the calls named c in the log of run r
CallsOf(r, c) == {i \in 1..Len(runs[r].log) : runs[r].log[i] = c}

\* stage 1 of run r completed and yielded no value
AggregateYieldedNothing(r) ==
    /\ Answered(runs[r].script.sc.agg).status = HTTP_OK
    /\ Valued(AggPoints(r)) = {}

\* C24: the raw-source fallback is entered only if the aggregate stage
\* completed and yielded no value: every listing or dataset request comes
\* after the aggregate request, and none is issued in a run whose aggregate
\* stage produced a value (or failed).
C24_FallbackOnlyAfterEmptyAggregate ==
    \A r \in HrRuns :
        /\ CallsOf(r, "aggregate") = {1}
        /\ CallsOf(r, "dataSources") \subseteq {2}
        /\ \A i \in CallsOf(r, "dataset") : i > 2 /\ CallsOf(r, "dataSources") = {2}
        /\ (CallsOf(r, "dataSources") # {}) = AggregateYieldedNothing(r)

\* an aggregate answer whose only point has no value, then the listing and
\* the dataset of one stream, which gave 70
C24_Witness ==
    \E r \in HrRuns :
        /\ AggregateYieldedNothing(r)
        /\ Len(AggPoints(r)) = 1
        /\ runs[r].log = <<"aggregate", "dataSources", "dataset">>
        /\ runs[r].res["heart_rate"].value = 70

\* the i-th stream is the first whose dataset holds points with values
FirstValuedStream(r, i) ==
    /\ StreamAnswer(r, i).status = HTTP_OK
    /\ Valued(StreamAnswer(r, i).data) # {}
    /\ \A j \in 1..(i - 1) :
           StreamAnswer(r, j).status = HTTP_OK /\ Valued(StreamAnswer(r, j).data) = {}

\* C25: in the raw-source fallback a stream's dataset gets the extraction
\* of the aggregate stage, latest by timestamp or else the mean: the
\* resolver returns for the first stream holding values what the aggregate
\* stage yields for the same points.
C25_RawExtractionAsAggregate ==
    \A r \in HrRawRuns :
        \A i \in 1..Len(runs[r].script.sc.sets) :
            FirstValuedStream(r, i) =>
                runs[r].res["heart_rate"].value
                    = AggregateHeartRate(<< <<StreamAnswer(r, i).data>> >>)

(***************************************************************************)
(* Further claims about makeFitRequest, checked under SpecExec.            *)
(***************************************************************************)
\* the calls whose first provider call failed otherwise than with 401
FailedOtherwise ==
    {c \in CallIds : calls[c].s1 \in FitFailStatuses \ {UNAUTHORIZED}}

\* C26: when the first provider call fails with anything but 401 (403, 404,
\* another status, or no response at all) the call ends at once, having
\* sent one provider call and invoked no refresh, with an error that
\* carries the provider's status (500 when there was no response) and the
\* provider's message.
C26_OtherFailuresFailAtOnce ==
    \A c \in FailedOtherwise :
        /\ calls[c].pc = "done"
        /\ calls[c].nProvider = 1
        /\ calls[c].nRefresh = 0
        /\ calls[c].nWrites = 0
        /\ calls[c].newToken = None /\ calls[c].r2 = NoFit
        /\ ~calls[c].out.ok
        /\ calls[c].out.status =
               IF calls[c].s1 = NoResponse THEN INTERNAL_SERVER_ERROR ELSE calls[c].s1
        /\ calls[c].m1 # "" => calls[c].out.msg = calls[c].m1

\* one call failed with 404 and the provider's message, another without any
\* response
C26_Witness ==
    \E c, d \in CallIds :
        /\ calls[c].pc = "done" /\ calls[c].s1 = NOT_FOUND /\ calls[c].m1 = "quota"
        /\ calls[c].out.status = NOT_FOUND /\ calls[c].out.msg = "quota"
        /\ calls[d].pc = "done" /\ calls[d].s1 = NoResponse
        /\ calls[d].out.status = INTERNAL_SERVER_ERROR

(***************************************************************************)
(* Claims about refreshAccessToken, checked under SpecExec.                *)
(***************************************************************************)
\* the user lookup of the refresh of call c answers
LookupAnswers(c) == calls[c].pc = "refreshFind" /\ calls'[c].pc # "refreshFind"

\* C27: the refresh of a user whose stored pair lacks a refresh token fails
\* with NoRefreshCredential, having sent no request to the token endpoint
\* and written nothing to the users table.
C27_NoRefreshTokenNoExchange ==
    /\ [](\A c \in CallIds :
            calls[c].rerr = NoRefreshCredential =>
                calls[c].nToken = 0 /\ calls[c].nWrites = 0 /\ calls[c].pc = "done")
    /\ [][\A c \in CallIds :
            (LookupAnswers(c) /\ users[calls[c].user].found
                 /\ users[calls[c].user].refresh_token = None) =>
                /\ calls'[c].rerr = NoRefreshCredential
                /\ calls'[c].nToken = 0
                /\ users' = users]_vars

\* a refresh ended with NoRefreshCredential for a user who has an access
\* token and no refresh token
C27_Witness ==
    \E c \in CallIds :
        /\ calls[c].rerr.kind = "NoRefreshCredential"
        /\ calls[c].s1 = UNAUTHORIZED
        /\ users[calls[c].user].access_token # None
        /\ users[calls[c].user].refresh_token = None

\* C28: a failure of the token exchange is classified in two ways that
\* cannot be confused: the endpoint rejecting the refresh token (400) gives
\* RefreshCredentialExpired, every other failure (another status, no
\* response) gives RefreshFailed; the two differ in status and message.
C28_ExpiredOrFailed ==
    /\ RefreshCredentialExpired.status # RefreshFailed.status
    /\ RefreshCredentialExpired.msg # RefreshFailed.msg
    /\ [][\A c \in CallIds, s \in TokenFailStatuses :
            (calls[c].pc = "exchange" /\ calls'[c].pc = "done"
                 /\ TokenEndpointResponse(c, TokenFail(s))) =>
                /\ calls'[c].nToken = 1
                /\ calls'[c].rerr =
                       IF s = BAD_REQUEST THEN RefreshCredentialExpired ELSE RefreshFailed]_vars

\* one refresh ended with RefreshCredentialExpired and another with
\* RefreshFailed
C28_Witness ==
    \E c, d \in CallIds :
        /\ calls[c].rerr = RefreshCredentialExpired
        /\ calls[d].rerr = RefreshFailed

(***************************************************************************)
(* Claims about the nine fetchers, checked under SpecResolve.              *)
(***************************************************************************)
\* the fetcher calls that have resolved
ResolveRuns == {r \in RunIds : runs[r].kind = "resolve"}

\* the errors makeFitRequest throws
FailureKinds ==
    {"Unauthenticated", "ReauthRequired", "MetricUnavailable", "ProviderError", "RetryFailed"}

\* C29: no fetcher propagates a failure of makeFitRequest: whatever the
\* kind of failure, the fetcher completes with its default value (0 for
\* steps, nothing for the others), so its settled outcome is fulfilled and
\* the value the orchestrator takes is the fetcher's own, not a substitute.
C29_FetchersNeverThrow ==
    \A r \in ResolveRuns :
        LET m == runs[r].script.metric
        IN  /\ runs[r].why \in FailureKinds \cup {""}
            /\ runs[r].res[m].status = "fulfilled"
            /\ \A k \in MetricSet \ {m} : runs[r].res[k].status = "pending"
            /\ runs[r].why \in FailureKinds => runs[r].res[m].value = DefaultOf(m)
            /\ SlotOf(m, runs[r].res[m]) = runs[r].res[m].value

\* fetchCalories resolved with nothing after the refresh behind a 401 failed
C29_Witness ==
    \E r \in ResolveRuns :
        /\ runs[r].script.metric = "calories"
        /\ runs[r].script.sc.r1.status = UNAUTHORIZED
        /\ runs[r].why = "ReauthRequired"
        /\ runs[r].res["calories"] = Fulfilled(Null)

\* the resolutions of the four summing fetchers that were answered a body
SumRuns ==
    {r \in ResolveRuns : /\ HasAccessToken(users[runs[r].user])
                         /\ runs[r].script.metric \in SumMetrics
                         /\ Answered(runs[r].script.sc).status = HTTP_OK}

\* the value read from a bucket: that of the first point of its first
\* dataset, nothing when there is none
BucketValue(m, bucket) ==
    IF Len(bucket) > 0 /\ Len(bucket[1]) > 0
    THEN LET p == bucket[1][1]
             v == IF m \in {"steps", "active_minutes"} THEN p.intVal ELSE p.fpVal
         IN  IF v = Undef THEN 0 ELSE v
    ELSE 0

\* the total over every bucket of the answer given to run r
WindowTotal(r) ==
    LET body == Answered(runs[r].script.sc).data
    IN  SumSeq([b \in 1..Len(body) |-> BucketValue(runs[r].script.metric, body[b])])

SumValue(r) == runs[r].res[runs[r].script.metric].value

\* C30 (as stated): fetchSteps, fetchCalories, fetchDistance and
\* fetchActiveMinutes return the sum over every bucket of the bucket's
\* point value, distance divided by 1000.
C30_SumOfBuckets ==
    \A r \in SumRuns :
        CASE runs[r].script.metric = "calories" -> SumValue(r) * CalScale = WindowTotal(r)
          [] runs[r].script.metric = "distance" -> SumValue(r) * 1000 = WindowTotal(r)
          [] OTHER -> SumValue(r) = WindowTotal(r)

\* C30 (amended): the four fetchers total, over every bucket, the value of
\* the first point of the bucket's first dataset, a bucket without one
\* contributing nothing; fetchSteps returns the total, fetchDistance the
\* total divided by 1000, fetchCalories the total rounded to the nearest
\* integer, and fetchActiveMinutes the total when it is above zero and
\* nothing otherwise.
C30_SumOfBucketsAsReturned ==
    \A r \in SumRuns :
        CASE runs[r].script.metric = "steps" -> SumValue(r) = WindowTotal(r)
          [] runs[r].script.metric = "distance" -> SumValue(r) * 1000 = WindowTotal(r)
          [] runs[r].script.metric = "calories" ->
                 Nearest(SumValue(r), WindowTotal(r), CalScale)
          [] OTHER ->
                 SumValue(r) = IF WindowTotal(r) > 0 THEN WindowTotal(r) ELSE Null

\* a window of two buckets with 5 and 7 steps resolved 12
C30_Witness ==
    \E r \in SumRuns :
        /\ runs[r].script.metric = "steps"
        /\ Len(Answered(runs[r].script.sc).data) = 2
        /\ BucketValue("steps", Answered(runs[r].script.sc).data[1]) = 5
        /\ BucketValue("steps", Answered(runs[r].script.sc).data[2]) = 7
        /\ SumValue(r) = 12

\* the resolutions of fetchWeight, fetchHeight and fetchSpeed that were
\* answered a body
LatestRuns ==
    {r \in ResolveRuns : /\ HasAccessToken(users[runs[r].user])
                         /\ runs[r].script.metric \in LatestMetrics
                         /\ Answered(runs[r].script.sc).status = HTTP_OK}

\* the first point value of the last bucket of the answer, 0 when the
\* answer has no bucket or its last bucket no point
LastBucketValue(r) ==
    LET body == Answered(runs[r].script.sc).data
    IN  IF Len(body) > 0 THEN BucketValue(runs[r].script.metric, body[Len(body)]) ELSE 0

\* C31: fetchWeight, fetchHeight and fetchSpeed return the first point
\* value of the last bucket of the response (speed converted from m/s to
\* km/h), never a sum; when the last bucket has no point the result is
\* nothing, whatever earlier buckets hold.
C31_LastBucketOnly ==
    \A r \in LatestRuns :
        IF LastBucketValue(r) > 0
        THEN IF runs[r].script.metric = "speed"
             THEN SumValue(r) * 10 = LastBucketValue(r) * 36
             ELSE SumValue(r) = LastBucketValue(r)
        ELSE SumValue(r) = Null

\* a weight answer of two buckets, the earlier with a value and the last
\* without a point, resolved to nothing
C31_Witness ==
    \E r \in LatestRuns :
        LET body == Answered(runs[r].script.sc).data
        IN  /\ runs[r].script.metric = "weight"
            /\ Len(body) = 2
            /\ BucketValue("weight", body[1]) = 5
            /\ body[2] = << <<>> >>
            /\ SumValue(r) = Null

(***************************************************************************)
(* Further claims about fetchRealDataFromGoogleFit, checked under Spec.    *)
(***************************************************************************)
\* the existence check of run r answers that the day is to be fetched
CycleStarts(r) ==
    runs[r].kind = "backfill" /\ runs[r].pc = "bfFind" /\ runs'[r].pc = "bfFetch"

\* C32: backfill handles its days one after the other, and between two
\* consecutive fetch cycles of a run the delay step occurs, on every path
\* through the loop body, the one where storing the day's record fails
\* included.
C32_DelayBetweenCycles ==
    [][\A r \in RunIds :
          /\ (CycleStarts(r) /\ runs[r].cycles > 0) => runs[r].rested
          /\ (runs[r].kind = "backfill" /\ runs'[r].i # runs[r].i) =>
                 /\ runs'[r].i = runs[r].i + 1
                 /\ runs[r].pc # "bfFetch"]_vars

(***************************************************************************)
(* Claims about the course of a backfill, checked under SpecBackfill.      *)
(***************************************************************************)
\* C33: backfill(userId, N) visits the days today, today-1, ... in that
\* order (today as computed on entry), each once, N of them in all, and
\* then returns, whatever happened on each day; the count it returns lies
\* between 0 and the number of days it did not skip.
C33_VisitsNDaysAndReturns ==
    /\ [](\A r \in BackfillRuns :
            /\ runs[r].visited =
                   [k \in 1..Len(runs[r].visited) |-> runs[r].day - (k - 1)]
            /\ Len(runs[r].visited) <= runs[r].days
            /\ Len(runs[r].visited) =
                   IF runs[r].pc = "bfFind" THEN runs[r].i
                   ELSE IF runs[r].pc = "done" THEN runs[r].days ELSE runs[r].i + 1
            /\ runs[r].count >= 0
            /\ runs[r].count <= runs[r].cycles
            /\ runs[r].cycles + runs[r].skips <= Len(runs[r].visited)
            /\ (runs[r].pc = "done" => runs[r].cycles + runs[r].skips = runs[r].days))
    /\ \A r \in RunIds :
           (runs[r].kind = "backfill") ~> (runs[r].kind = "backfill" /\ runs[r].pc = "done")

\* a backfill over two days has returned 1 after storing one day and
\* failing to store the other
C33_Witness ==
    \E r \in BackfillRuns :
        /\ runs[r].pc = "done"
        /\ runs[r].days = 2
        /\ runs[r].visited = <<runs[r].day, runs[r].day - 1>>
        /\ runs[r].cycles = 2
        /\ runs[r].count = 1
        /\ Len(store) = 1

\* the streams the listing of run r named
Listed(r) ==
    IF Answered(runs[r].script.sc.list).status = HTTP_OK
    THEN Len(Answered(runs[r].script.sc.list).data)
    ELSE 0

WritesTokens(c) ==
    /\ calls[c].pc = "updateTokens"
    /\ calls'[c].nWrites = calls[c].nWrites + 1
    /\ \A u \in UserIds \ {calls[c].user} : users'[u] = users[u]

\* C35: makeFitRequest changes the users table only on the path 'first
\* call answered 401, then the token exchange succeeded': every change of
\* the table is the write of such a call, and a call that ended after a
\* successful first call, after another failure or after a failed refresh
\* has written nothing.
C35_WritesOnlyAfterExchange ==
    /\ [](\A c \in CallIds :
            /\ calls[c].nWrites <= 1
            /\ calls[c].nWrites = 1 =>
                   /\ calls[c].s1 = UNAUTHORIZED
                   /\ calls[c].nToken = 1
                   /\ calls[c].newToken # None
                   /\ calls[c].rerr = NoRefreshError)
    /\ [][users' # users =>
            \E c \in CallIds : WritesTokens(c) /\ calls[c].s1 = UNAUTHORIZED]_vars

\* one call got data at once and another of the same user ended after a
\* failed exchange: neither wrote, and the user's row is as it was stored
C35_Witness ==
    \E c, d \in CallIds :
        /\ calls[c].pc = "done" /\ calls[c].s1 = HTTP_OK
        /\ calls[d].pc = "done" /\ calls[d].rerr = RefreshFailed
        /\ calls[c].user = calls[d].user
        /\ calls[c].nWrites = 0 /\ calls[d].nWrites = 0
        /\ users[calls[c].user] = UserRow(1, 1)

\* ---------------------------------------------------------------------------
\* C36: a stored refresh token never becomes absent, whatever the calls of
\* makeFitRequest and their refreshes do and however they interleave: every
\* write of a refresh carries a refresh token, the answered one or, when the
\* token endpoint answered none, the one read from the row before the
\* exchange.
C36_RefreshCredentialKept ==
    /\ [](\A c \in CallIds :
            calls[c].pc = "updateTokens" => calls[c].pend.refresh_token # None)
    /\ [][\A u \in UserIds :
            (users[u].found /\ users[u].refresh_token # None) =>
                (users'[u].found /\ users'[u].refresh_token # None)]_vars

\* both calls of one user refreshed and wrote, one after the other or
\* interleaved, and the row still holds a refresh token
C36_Witness ==
    \E c, d \in CallIds :
        /\ c # d
        /\ calls[c].user = calls[d].user
        /\ calls[c].nWrites = 1
        /\ calls[d].nWrites = 1
        /\ calls[c].pc = "done"
        /\ calls[d].pc = "done"
        /\ users[calls[c].user].refresh_token # None

\* ---------------------------------------------------------------------------
\* C37: the record a fetchAndSaveHealthData run stores is dated with the day
\* of the window its metrics were fetched for, also when midnight passes
\* between the start of the run and the moment saveHealthData computes its
\* key.
C37_StoredUnderWindowDay ==
    \A r \in RunIds :
        (runs[r].kind = "fetchAll" /\ runs[r].pc = "done") =>
            /\ runs[r].ret.date = runs[r].day
            /\ store[runs[r].row].date = runs[r].day

\* ---------------------------------------------------------------------------
\* every run of the heart-rate resolver, for a user with or without an
\* access token
HrResolveRuns ==
    {r \in RunIds : runs[r].kind = "resolve" /\ runs[r].script.metric = "heart_rate"}

\* the p-th request of run r failed: the aggregate query (1) as the
\* executor ended it, the listing (2) and the dataset of stream p - 2
\* as the provider answered them
RequestFailed(r, p) ==
    IF p = 1 THEN runs[r].why # ""
    ELSE IF p = 2 THEN runs[r].script.sc.list.r1.status # HTTP_OK
    ELSE StreamAnswer(r, p - 2).status # HTTP_OK

\* C38: in the heart-rate resolver a failure of the aggregate query other
\* than MetricUnavailable (ProviderError, ReauthRequired, Unauthenticated,
\* a failed retry) also yields nothing without the raw sources being listed;
\* a failed listing yields nothing without any dataset request; the only
\* failed request that is followed by another request is a stream's dataset
\* request.
C38_OnlyDatasetFailuresContinue ==
    \A r \in HrResolveRuns :
        /\ runs[r].why \in FailureKinds \ {"MetricUnavailable"} =>
               /\ runs[r].res["heart_rate"].value = Null
               /\ runs[r].log = <<"aggregate">>
        /\ (/\ r \in HrRuns
            /\ AggregateYieldedNothing(r)
            /\ runs[r].script.sc.list.r1.status # HTTP_OK) =>
               /\ runs[r].res["heart_rate"].value = Null
               /\ runs[r].log = <<"aggregate", "dataSources">>
        /\ \A p \in 1..(Len(runs[r].log) - 1) :
               RequestFailed(r, p) => runs[r].log[p] = "dataset"

\* the aggregate query ended in ProviderError while the listing and the
\* stream's dataset would have answered: nothing is returned and only the
\* aggregate request was made
C38_Witness ==
    \E r \in HrResolveRuns :
        /\ runs[r].why = "ProviderError"
        /\ runs[r].script.sc.list.r1.status = HTTP_OK
        /\ Len(runs[r].script.sc.sets) = 1
        /\ StreamAnswer(r, 1).status = HTTP_OK
        /\ runs[r].res["heart_rate"].value = Null
        /\ runs[r].log = <<"aggregate">>

(***************************************************************************)
(* SpecAuth: POST /auth/refresh (AuthController.refreshToken) next to the  *)
(* sign-in that issues session tokens.  A session token is its payload's   *)
(* subject and whether its signature was made with the service's key; a    *)
(* client can present any token it likes, but a token carrying the         *)
(* service's signature only if the service issued it before.               *)
(***************************************************************************)
NoSub == ""

\* a string of three dot-separated parts
Jwt(sub, signed) == [parts |-> 3, sub |-> sub, signed |-> signed]

NoToken == [parts |-> 0, sub |-> NoSub, signed |-> FALSE]

\* a bearer string that is not of three parts
Garbled == [parts |-> 1, sub |-> NoSub, signed |-> FALSE]

\* jwtService.sign({ email, sub: user.userId })
sign(payload) == Jwt(payload.sub, TRUE)

\* AuthService.login
login(user) == [access_token |-> sign([sub |-> user.userId])]

\* AuthService.decodeJWT: the payload part is base64-decoded and parsed;
\* the signature part is not looked at
decodeJWT(token) ==
    IF token.parts # 3 THEN [ok |-> FALSE, sub |-> NoSub]
    ELSE [ok |-> TRUE, sub |-> token.sub]

NoHeader == [scheme |-> "none", token |-> NoToken]

Bearer(token) == [scheme |-> "Bearer", token |-> token]

NoReply == [error |-> "", access_token |-> NoToken]

ErrorReply(e) == [error |-> e, access_token |-> NoToken]

TokenReply(t) == [error |-> "", access_token |-> t]

AuthRun == IdleRun @@ [hdr |-> NoHeader, reply |-> NoReply]

\* the tokens the service has signed and handed out so far
IssuedTokens ==
    {runs[r].reply.access_token : r \in {q \in RunIds : runs[q].reply.access_token # NoToken}}

\* what a client can put in the Authorization header
Headers ==
    {NoHeader, [scheme |-> "Basic", token |-> NoToken], Bearer(Garbled)}
        \cup {Bearer(Jwt(s, FALSE)) : s \in UserIds \cup {NoSub}}
        \cup {Bearer(t) : t \in IssuedTokens}

AuthTokens == {TokenOk(2, None), TokenOk(2, 2), TokenFail(BAD_REQUEST)}

\* the sign-in callback: the guard has found or created the user, login
\* signs a token for it
GoogleAuthRedirect(r, u) ==
    /\ runs[r].pc = "idle"
    /\ users[u].found
    /\ runs' = [runs EXCEPT ![r] =
            [@ EXCEPT !.kind = "signIn", !.pc = "done", !.user = u,
                      !.reply = TokenReply(login([userId |-> u]).access_token)]]
    /\ UNCHANGED <<users, calls, clock, store>>

\* refreshToken up to its first await: the header is examined and the
\* bearer token decoded
RefreshTokenBegin(r, hdr) ==
    /\ runs[r].pc = "idle"
    /\ LET payload == decodeJWT(hdr.token)
           rec == [runs[r] EXCEPT !.kind = "refreshToken", !.hdr = hdr]
       IN  runs' = [runs EXCEPT ![r] =
               IF hdr.scheme # "Bearer"
               THEN [rec EXCEPT !.pc = "done", !.reply = ErrorReply("No token provided")]
               ELSE IF ~payload.ok \/ payload.sub = NoSub
               THEN [rec EXCEPT !.pc = "done", !.reply = ErrorReply("Invalid token")]
               ELSE [rec EXCEPT !.pc = "findById", !.user = payload.sub]]
    /\ UNCHANGED <<users, calls, clock, store>>

\* usersService.findById answers
RefreshTokenFindById(r) ==
    /\ runs[r].pc = "findById"
    /\ runs' = [runs EXCEPT ![r] =
            IF CanRefresh(users[runs[r].user])
            THEN [@ EXCEPT !.pc = "refreshAccessToken"]
            ELSE [@ EXCEPT !.pc = "done",
                           !.reply = ErrorReply("No refresh token available. Please login again.")]]
    /\ UNCHANGED <<users, calls, clock, store>>

\* usersService.findById rejects: the outer catch answers
RefreshTokenFindFails(r) ==
    /\ runs[r].pc = "findById"
    /\ runs' = [runs EXCEPT ![r] =
            [@ EXCEPT !.pc = "done", !.reply = ErrorReply("Failed to refresh token")]]
    /\ UNCHANGED <<users, calls, clock, store>>

\* the row after GoogleTokenRefreshService.refreshAccessToken(id) against
\* a token endpoint answering tok
RefreshedRows(tbl, id, tok) ==
    IF CanRefresh(tbl[id]) /\ ExchangeOk(tok)
    THEN LET p == NewPair(tbl[id], tok)
         IN  updateTokens(tbl, id, p.access_token, p.refresh_token)
    ELSE tbl

\* refreshAccessToken settles; its rejection is caught and only logged
RefreshTokenExchange(r, tok) ==
    /\ runs[r].pc = "refreshAccessToken"
    /\ users' = RefreshedRows(users, runs[r].user, tok)
    /\ runs' = [runs EXCEPT ![r] =
            [@ EXCEPT !.pc = "login", !.why = IF ExchangeOk(tok) THEN "" ELSE "refresh failed"]]
    /\ UNCHANGED <<calls, clock, store>>

\* authService.login signs the new token, which is returned
RefreshTokenLogin(r) ==
    /\ runs[r].pc = "login"
    /\ runs' = [runs EXCEPT ![r] =
            [@ EXCEPT !.pc = "done",
                      !.reply = TokenReply(login([userId |-> runs[r].user]).access_token)]]
    /\ UNCHANGED <<users, calls, clock, store>>

AuthUsers ==
    {t \in [UserIds -> {NoUser, UserRow(1, 1), UserRow(1, None)}] : t["u1"] = UserRow(1, 1)}

InitAuth ==
    /\ users \in AuthUsers
    /\ calls = [c \in CallIds |-> IdleCall]
    /\ clock = 0
    /\ store = <<>>
    /\ runs = [r \in RunIds |-> AuthRun]

NextAuth ==
    \/ \E r \in RunIds, u \in UserIds : GoogleAuthRedirect(r, u)
    \/ \E r \in RunIds, hdr \in Headers : RefreshTokenBegin(r, hdr)
    \/ \E r \in RunIds : RefreshTokenFindById(r)
    \/ \E r \in RunIds : RefreshTokenFindFails(r)
    \/ \E r \in RunIds, tok \in AuthTokens : RefreshTokenExchange(r, tok)
    \/ \E r \in RunIds : RefreshTokenLogin(r)

SpecAuth == InitAuth /\ [][NextAuth]_vars

\* ---------------------------------------------------------------------------
\* C39: POST /auth/refresh answers with a new session token for a user only
\* to a bearer token that the service itself signed for that user; a token
\* naming the user without the service's signature obtains none.
C39_OnlyForOwnSignedToken ==
    \A r \in RunIds :
        (runs[r].kind = "refreshToken" /\ runs[r].reply.access_token # NoToken) =>
            /\ runs[r].hdr.token.signed
            /\ runs[r].hdr.token.sub = runs[r].reply.access_token.sub

(***************************************************************************)
(* SpecDash: getDashboardData next to the operations that write the        *)
(* store, run one after the other: slot k of runs holds the k-th           *)
(* operation.  fetched_at is a CreateDateColumn: it is set when a row is   *)
(* inserted and left alone by an update, so the order of fetched_at is     *)
(* the order of the rows in the store.                                     *)
(***************************************************************************)
NumDashOps == 4
MaxDashDay == 2

DashOps == 1..NumDashOps

\* the merged records a fetch cycle can hand over
DashRecords ==
    {[m \in MetricSet |-> IF m = "steps" THEN s ELSE Null] : s \in 1..2}

\* findOne with order: { fetched_at: 'DESC' }: the last inserted of the
\* rows ids, 0 for none
LastInserted(ids) == IF ids = {} THEN 0 ELSE CHOOSE i \in ids : \A j \in ids : j <= i

getLatestHealthData(tbl, u) == LastInserted({i \in 1..Len(tbl) : tbl[i].user_id = u})

\* the dashboardData object built from a row; Number() of a value that is
\* not null is that value
Summary(row) == [m \in MetricSet |-> row[m]] @@ [date |-> row.date]

\* the object returned when the user has no row
EmptySummary == [m \in MetricSet |-> IF m = "steps" THEN 0 ELSE Null] @@ [date |-> Null]

getDashboardData(tbl, u, today) ==
    LET todayData == LastInserted(Matching(tbl, u, today))
        latest == getLatestHealthData(tbl, u)
    IN  IF todayData # 0 THEN Summary(tbl[todayData])
        ELSE IF latest # 0 THEN Summary(tbl[latest])
        ELSE EmptySummary

NoSummary == [m \in {} |-> Null]

DashRun == IdleRun @@ [view |-> NoSummary]

\* the k-th operation starts when the operations before it have returned
DashTurn(k) == runs[k].pc = "idle" /\ \A j \in 1..(k - 1) : runs[j].pc = "done"

\* saveHealthData(u, data) from entry to return
DashSave(k, u, data) ==
    /\ DashTurn(k)
    /\ users[u].found
    /\ LET hit == Matching(store, u, clock)
       IN  \E id \in (IF hit = {} THEN {0} ELSE hit) :
               LET ent == IF id = 0 THEN CreateEntity(u, clock, data)
                          ELSE AssignEntity(store[id], data)
               IN  /\ store' = SaveRow(store, id, ent)
                   /\ runs' = [runs EXCEPT ![k] =
                          [@ EXCEPT !.kind = "save", !.pc = "done", !.user = u,
                                    !.day = clock, !.saveDay = clock, !.data = data,
                                    !.found = id, !.ret = ent, !.row = RowId(store, id)]]
    /\ UNCHANGED <<users, calls, clock>>

\* one day of the backfill loop: a day that has no row gets one
InsertMissing(tbl, u, d, data) ==
    IF Matching(tbl, u, d) # {} THEN tbl ELSE SaveRow(tbl, 0, Row(u, d, data))

\* fetchRealDataFromGoogleFit(u, 2) from entry to return, each day's fetch
\* cycle yielding data
DashBackfill(k, u, data) ==
    /\ DashTurn(k)
    /\ users[u].found
    /\ HasSomeData(data)
    /\ LET t1 == InsertMissing(store, u, clock, data)
           t2 == InsertMissing(t1, u, clock - 1, data)
       IN  /\ store' = t2
           /\ runs' = [runs EXCEPT ![k] =
                  [@ EXCEPT !.kind = "backfill", !.pc = "done", !.user = u, !.day = clock,
                            !.days = 2, !.i = 2, !.count = Len(t2) - Len(store),
                            !.row = IF Len(t2) > Len(store) THEN Len(t2) ELSE 0]]
    /\ UNCHANGED <<users, calls, clock>>

\* getDashboardData(u) from entry to return
DashView(k, u) ==
    /\ DashTurn(k)
    /\ users[u].found
    /\ runs' = [runs EXCEPT ![k] =
            [@ EXCEPT !.kind = "dashboard", !.pc = "done", !.user = u, !.day = clock,
                      !.view = getDashboardData(store, u, clock)]]
    /\ UNCHANGED <<users, calls, clock, store>>

\* midnight passes
DayPasses ==
    /\ clock < MaxDashDay
    /\ clock' = clock + 1
    /\ UNCHANGED <<users, calls, store, runs>>

InitDash ==
    /\ users = [u \in UserIds |-> UserRow(1, 1)]
    /\ calls = [c \in CallIds |-> IdleCall]
    /\ clock = 1
    /\ store = <<>>
    /\ runs = [k \in DashOps |-> DashRun]

NextDash ==
    \/ \E k \in DashOps, u \in UserIds, data \in DashRecords : DashSave(k, u, data)
    \/ \E k \in DashOps, u \in UserIds, data \in DashRecords : DashBackfill(k, u, data)
    \/ \E k \in DashOps, u \in UserIds : DashView(k, u)
    \/ DayPasses

SpecDash == InitDash /\ [][NextDash]_vars

\* ---------------------------------------------------------------------------
\* the operation that wrote a row of user u last before operation k, 0 for
\* none
LastWriter(u, k) ==
    LET w == {j \in 1..(k - 1) :
                 runs[j].user = u /\ runs[j].kind \in {"save", "backfill"} /\ runs[j].row # 0}
    IN  IF w = {} THEN 0 ELSE CHOOSE j \in w : \A i \in w : i <= j

\* operation k is a getDashboardData call and the last operation so far
JustViewed(k) ==
    /\ runs[k].kind = "dashboard"
    /\ \A j \in DashOps : j > k => runs[j].pc = "idle"
    /\ runs[k].day = clock

\* C40: getDashboardData(user) returns the metrics of the user's row of
\* today when there is one; otherwise those of the row of the user that
\* was fetched and saved last, whatever its day; otherwise steps 0 and
\* everything else absent.  It returns no other user's data and leaves the
\* store as it is.
C40_TodayElseLastFetched ==
    /\ \A k \in DashOps :
           JustViewed(k) =>
               LET u == runs[k].user
                   today == Matching(store, u, clock)
                   w == LastWriter(u, k)
               IN  IF today # {} THEN \E i \in today : runs[k].view = Summary(store[i])
                   ELSE IF w # 0 THEN runs[k].view = Summary(store[runs[w].row])
                   ELSE runs[k].view = EmptySummary
    /\ \A k \in DashOps :
           (JustViewed(k) /\ runs[k].view # EmptySummary) =>
               \E i \in 1..Len(store) :
                   store[i].user_id = runs[k].user /\ runs[k].view = Summary(store[i])

====
